---- MODULE Spec2Model ----
(***************************************************************************)
(* A model of heed's transaction / split-halves / cursor / iterator layer. *)
(*                                                                         *)
(*   Spec       transaction objects (RoTxn, RwTxn, nested RwTxn), the two  *)
(*              halves of RwTxn::split, one write cursor, and the logical  *)
(*              content the engine keeps per transaction handle.           *)
(*   SpecPages  one split RwTxn seen by page: copy-on-write of committed   *)
(*              pages, heap pages written in place, the loose-page pool,   *)
(*              and a reference held through the ReadHalf.                 *)
(*   SpecCopy   the copy loop of cross_db_split_iter_and_put.              *)
(*   SpecIter   a RoIter through the ReadHalf while the WriteHalf writes   *)
(*              the same collection.                                       *)
(*   SpecRange  RoRange and RoRevRange over a fixed content.               *)
(*   SpecPrefix RoPrefix and RoRevPrefix over a fixed content.             *)
(*   SpecWalk   puts, then RoIter or RoRevIter over the collection.        *)
(*   SpecCursor the operations of one cursor.                              *)
(*   SpecRef    the slices returned by a cursor, kept by the program.      *)
(*   SpecWait   RwTxn::new as a call that waits for the writer to end.     *)
(*   SpecSend   transactions and halves handed from thread to thread.      *)
(*   SpecAdvance  advance_prefix applied to any byte sequence.             *)
(*   SpecSix    the six iterators together, next() and last().             *)
(*   SpecDecode the six iterators with codecs that fail on some entries.   *)
(*   SpecConvert  the six iterators with conversions between the calls.    *)
(*                                                                         *)
(* Rust's ownership rules are part of the program: an operation whose      *)
(* receiver is borrowed in a way the signature forbids does not compile,   *)
(* so it is not a step of the program.  The guards named *Borrow model     *)
(* exactly the borrows that the signatures in txn.rs and cursor.rs create. *)
(***************************************************************************)
EXTENDS Integers, Sequences, FiniteSets, TLC

(* ------------------------------ bounds --------------------------------- *)
\* transaction objects created in one run
MaxTxn == 3
\* bytes are 0..MaxByte
MaxByte == 1
\* keys are the non-empty byte strings of at most MaxKeyLen bytes
MaxKeyLen == 2
\* values are 1..MaxVal
MaxVal == 2

(* ------------------------------ values --------------------------------- *)
\* Option::None of `txn: Option<NonNull<MDB_txn>>`; handles are 1..MaxTxn
None == 0

Slots == 1..MaxTxn
Handles == 1..MaxTxn
Dbs == {"A", "B"}
Bytes == 0..MaxByte
KeysOfLen(n) == [1..n -> Bytes]
Keys == UNION {KeysOfLen(n) : n \in 1..MaxKeyLen}
Vals == 1..MaxVal
NoVal == 0
Entry == [k : Keys, v : Vals]
\* the key and the collection the transaction-level specification writes
LifeKeys == {[i \in 1..1 |-> 0]}
LifeDbs == {"A"}

EmptyContent == [d \in Dbs |-> {}]

(* --------------------------- logical content --------------------------- *)
\* mdb_put without MDB_DUPSORT replaces the value of the key; with it the
\* pair is added to the key's sorted duplicates
PutContent(c, ds, k, v) ==
    IF ds THEN c \cup {[k |-> k, v |-> v]}
    ELSE {e \in c : e.k # k} \cup {[k |-> k, v |-> v]}

DelContent(c, k) == {e \in c : e.k # k}

HasKey(c, k) == \E e \in c : e.k = k

\* mdb_get: the key's first (smallest) value
GetContent(c, k) ==
    IF HasKey(c, k)
    THEN LET vs == {e.v : e \in {x \in c : x.k = k}}
         IN CHOOSE v \in vs : \A w \in vs : v <= w
    ELSE NoVal

(* ------------------------------ key order ------------------------------ *)
Min2(a, b) == IF a < b THEN a ELSE b

\* the default comparator: bytes compared in order, and of two keys with one
\* a prefix of the other the shorter is the smaller
KeyLess(a, b) ==
    \E i \in 1..(Min2(Len(a), Len(b)) + 1) :
        /\ \A j \in 1..(i - 1) : a[j] = b[j]
        /\ IF i <= Min2(Len(a), Len(b)) THEN a[i] < b[i] ELSE Len(a) < Len(b)

KeyLeq(a, b) == a = b \/ KeyLess(a, b)

\* the order of the entries of a collection: by key, the duplicates of a key
\* by value
EntryLess(e, f) == KeyLess(e.k, f.k) \/ (e.k = f.k /\ e.v < f.v)

MinEntry(S) == CHOOSE e \in S : \A f \in S : e = f \/ EntryLess(e, f)

MaxEntry(S) == CHOOSE e \in S : \A f \in S : e = f \/ EntryLess(f, e)

(* --------------------------- engine cursor ----------------------------- *)
\* A cursor is on no entry yet ("uninit"), on an entry ("at"), on the entry
\* it was on when a move forward found the end of the collection ("last":
\* the engine's C_EOF flag is set), or past the last entry after a seek that
\* found nothing in a non-empty collection ("eof").  An operation gives the
\* cursor's new state, a return code and the entry it found.
NoEntry == [k |-> <<>>, v |-> NoVal]

Uninit == [st |-> "uninit", e |-> NoEntry]

Eof == [st |-> "eof", e |-> NoEntry]

\* what a cursor call leaves: the cursor, the status (for an operation of
\* cursor.rs "notfound" stands for Ok(None) or Ok(false)), the entry found
\* and the statuses of the engine calls made; ops, filled in by the
\* operations of cursor.rs, names the cursor operations handed to the engine
Found(e) ==
    [cs |-> [st |-> "at", e |-> e], rc |-> "ok", e |-> e, calls |-> <<"ok">>,
     ops |-> <<>>]

Fail(cs, rc) ==
    [cs |-> cs, rc |-> rc, e |-> NoEntry, calls |-> <<rc>>, ops |-> <<>>]

MoveOps == {"Any", "Dup", "NoDup"}

\* MDB_FIRST
MdbFirst(c) == IF c = {} THEN Fail(Uninit, "notfound") ELSE Found(MinEntry(c))

\* MDB_LAST
MdbLast(c) == IF c = {} THEN Fail(Uninit, "notfound") ELSE Found(MaxEntry(c))

\* MDB_FIRST_DUP / MDB_LAST_DUP: refused on a cursor never placed, nothing
\* found by a cursor that is past the last entry
MdbEdgeDup(c, cs, first) ==
    IF cs.st = "uninit" THEN Fail(cs, "einval")
    ELSE IF cs.st = "eof" THEN Fail(cs, "notfound")
    ELSE LET S == {f \in c : f.k = cs.e.k}
         IN IF S = {} THEN Fail(cs, "notfound")
            ELSE Found(IF first THEN MinEntry(S) ELSE MaxEntry(S))

\* MDB_NEXT, MDB_NEXT_DUP, MDB_NEXT_NODUP: a cursor on no entry yet goes to
\* the first entry; a failed move leaves the cursor on its entry, and one
\* that found the end of the collection flags it: no later move forward
\* succeeds until the cursor is placed anew
MdbNext(c, cs, mop) ==
    IF cs.st = "uninit" THEN MdbFirst(c)
    ELSE IF cs.st \in {"eof", "last"} THEN Fail(cs, "notfound")
    ELSE LET S == {f \in c :
                     CASE mop = "Any" -> EntryLess(cs.e, f)
                       [] mop = "Dup" -> f.k = cs.e.k /\ cs.e.v < f.v
                       [] OTHER -> KeyLess(cs.e.k, f.k)}
         IN IF S # {} THEN Found(MinEntry(S))
            ELSE Fail(IF mop = "Dup" THEN cs ELSE [cs EXCEPT !.st = "last"],
                      "notfound")

\* MDB_PREV, MDB_PREV_DUP, MDB_PREV_NODUP: a cursor on no entry yet, or past
\* the last entry, goes to the last entry
MdbPrev(c, cs, mop) ==
    IF cs.st = "uninit" THEN MdbLast(c)
    ELSE IF cs.st = "eof"
    THEN (IF c = {} THEN Fail(cs, "notfound") ELSE Found(MaxEntry(c)))
    ELSE LET S == {f \in c :
                     CASE mop = "Any" -> EntryLess(f, cs.e)
                       [] mop = "Dup" -> f.k = cs.e.k /\ f.v < cs.e.v
                       [] OTHER -> KeyLess(f.k, cs.e.k)}
         IN IF S = {} THEN Fail(cs, "notfound") ELSE Found(MaxEntry(S))

\* MDB_SET_RANGE: the first entry whose key is >= key; an empty key is
\* refused
MdbSetRange(c, cs, key) ==
    LET S == {f \in c : KeyLeq(key, f.k)}
    IN IF key = <<>> THEN Fail(cs, "badvalsize")
       ELSE IF S # {} THEN Found(MinEntry(S))
       ELSE Fail(IF c = {} THEN Uninit ELSE Eof, "notfound")

\* the entry at the cursor's place: its entry, or the next one when its
\* entry was deleted
Under(c, cs) ==
    LET S == {f \in c : f = cs.e \/ EntryLess(cs.e, f)}
    IN IF cs.st \in {"at", "last"} /\ S # {} THEN {MinEntry(S)} ELSE {}

\* MDB_GET_CURRENT: the entry at the cursor's place; none when the cursor
\* is past the last entry, refused on a cursor never placed
MdbGetCurrent(c, cs) ==
    IF cs.st = "uninit" THEN Fail(cs, "einval")
    ELSE IF Under(c, cs) = {} THEN Fail(cs, "notfound")
    ELSE [Found(CHOOSE e \in Under(c, cs) : TRUE) EXCEPT !.cs = cs]

\* MDB_SET: the first value of the key; when the key is absent the cursor
\* is left at the place the key would have
MdbSet(c, cs, key) ==
    LET S == {f \in c : KeyLeq(key, f.k)}
    IN IF key = <<>> THEN Fail(cs, "badvalsize")
       ELSE IF S # {} /\ MinEntry(S).k = key THEN Found(MinEntry(S))
       ELSE Fail(IF c = {} THEN Uninit
                 ELSE IF S = {} THEN Eof
                 ELSE [st |-> "at", e |-> MinEntry(S)], "notfound")

\* mdb_cursor_del: deletes the entry at the cursor's place; c is the
\* content afterwards
MdbDel(c, cs) ==
    IF cs.st = "uninit" THEN [Fail(cs, "einval") EXCEPT !.e = c]
    ELSE IF Under(c, cs) = {} THEN [Fail(cs, "notfound") EXCEPT !.e = c]
    ELSE [cs |-> cs, rc |-> "ok", e |-> c \ Under(c, cs), calls |-> <<"ok">>,
          ops |-> <<>>]

(* ------------------------------ cursor.rs ------------------------------ *)
\* the cursor operations (ffi::cursor_op) an operation hands to
\* mdb_cursor_get, one for each engine call it made
Issued(first, second, r) ==
    [r EXCEPT !.ops = IF Len(r.calls) = 1 THEN <<first>>
                      ELSE <<first, second>>]

\* RoCursor::current
RoCursorCurrent(c, cs) ==
    Issued("MDB_GET_CURRENT", "none", MdbGetCurrent(c, cs))

\* the ? on the status of an engine call: every status but success leaves
\* the operation as an error, not-found included
Try(r) == [r EXCEPT !.rc = IF @ = "notfound" THEN "notfound as error" ELSE @]

\* the second engine call of an operation, or the second cursor operation
\* of a positioning
Then(first, second) ==
    [second EXCEPT !.calls = first.calls \o @, !.ops = first.ops \o @]

\* RoCursor::move_on_first
MoveOnFirst(c, cs, mop) ==
    IF mop = "Dup"
    THEN LET dup == MdbEdgeDup(c, cs, TRUE)
         IN Issued("MDB_FIRST_DUP", "MDB_GET_CURRENT",
                   IF dup.rc # "ok" THEN Try(dup)
                   ELSE Then(dup, MdbGetCurrent(c, dup.cs)))
    ELSE Issued("MDB_FIRST", "none", MdbFirst(c))

\* RoCursor::move_on_last
MoveOnLast(c, cs, mop) ==
    IF mop = "Dup"
    THEN LET dup == MdbEdgeDup(c, cs, FALSE)
         IN Issued("MDB_LAST_DUP", "MDB_GET_CURRENT",
                   IF dup.rc # "ok" THEN Try(dup)
                   ELSE Then(dup, MdbGetCurrent(c, dup.cs)))
    ELSE Issued("MDB_LAST", "none", MdbLast(c))

\* RoCursor::move_on_key: Ok(true) is "ok", Ok(false) is "notfound"
RoCursorMoveOnKey(c, cs, key) ==
    Issued("MDB_SET", "none", MdbSet(c, cs, key))

\* RwCursor::del_current: Ok(true) is "ok", Ok(false) is "notfound"
RwCursorDelCurrent(c, cs) == MdbDel(c, cs)

\* RoCursor::move_on_key_greater_than_or_equal_to
MoveOnKeyGreaterThanOrEqualTo(c, cs, key) ==
    Issued("MDB_SET_RANGE", "none", MdbSetRange(c, cs, key))

\* the flag of move_on_prev and of move_on_next for a MoveOperation
PrevFlag(mop) ==
    CASE mop = "Any" -> "MDB_PREV"
      [] mop = "Dup" -> "MDB_PREV_DUP"
      [] OTHER -> "MDB_PREV_NODUP"

NextFlag(mop) ==
    CASE mop = "Any" -> "MDB_NEXT"
      [] mop = "Dup" -> "MDB_NEXT_DUP"
      [] OTHER -> "MDB_NEXT_NODUP"

\* RoCursor::move_on_prev
MoveOnPrev(c, cs, mop) == Issued(PrevFlag(mop), "none", MdbPrev(c, cs, mop))

MoveOnNextBackwards(c, cs, mop) ==
    Issued(NextFlag(mop), "none", MdbPrev(c, cs, mop))

MoveOnNextIgnoringOp(c, cs, mop) ==
    Issued(NextFlag(mop), "none", MdbNext(c, cs, "Any"))

\* RoCursor::move_on_next
MoveOnNext(c, cs, mop) == Issued(NextFlag(mop), "none", MdbNext(c, cs, mop))

\* what an iterator's next() gives back: Some(Ok(entry)), None, Some(Err)
Some(e) == [tag |-> "Some", e |-> e]

NoneItem == [tag |-> "None", e |-> NoEntry]

ErrItem == [tag |-> "Err", e |-> NoEntry]

\* the match on a cursor move's result that ends every next()
ItemOf(r, must_be_returned) ==
    IF r.rc = "ok" THEN (IF must_be_returned THEN Some(r.e) ELSE NoneItem)
    ELSE IF r.rc = "notfound" THEN NoneItem ELSE ErrItem

\* The codecs KC and DC of a collection.  Bytes never fails; Strict stands for
\* a codec that rejects some byte strings: as KC the keys longer than one
\* byte, as DC the value MaxVal.
Codecs == {"Bytes", "Strict"}

\* KC::bytes_decode(key) is Ok
KeyDecodes(kc, k) == kc = "Bytes" \/ Len(k) = 1

\* DC::bytes_decode(data) is Ok
DataDecodes(dc, v) == dc = "Bytes" \/ v # MaxVal

\* Some(Err(Error::Decoding(e))), e from the key or from the data
DecodingErr(of) == [tag |-> "Decoding", e |-> NoEntry, of |-> of]

\* the match on (KC::bytes_decode(key), DC::bytes_decode(data)) of an entry
\* that must be returned
Decode(item, kc, dc) ==
    IF item.tag # "Some" THEN item
    ELSE IF ~KeyDecodes(kc, item.e.k) THEN DecodingErr("key")
    ELSE IF ~DataDecodes(dc, item.e.v) THEN DecodingErr("data")
    ELSE item

(* ------------------------------- iter.rs ------------------------------- *)
\* IterationMethod::MOVE_OPERATION of MoveThroughDuplicateValues, the default
DefaultMoveOperation == "Any"

RoIterNextOfSnapshot(c, i) ==
    LET r == IF i.move_on_first
             THEN MoveOnFirst(i.snap, i.cursor, i.im)
             ELSE MoveOnNext(i.snap, i.cursor, i.im)
    IN [it |-> [i EXCEPT !.move_on_first = FALSE, !.cursor = r.cs],
        item |-> ItemOf(r, TRUE), ops |-> r.ops]

\* RoIter::next: the iterator afterwards and the item
RoIterNext(c, it) ==
    LET r == IF it.move_on_first
             THEN MoveOnFirst(c, it.cursor, it.im)
             ELSE MoveOnNext(c, it.cursor, it.im)
    IN [it |-> [it EXCEPT !.move_on_first = FALSE, !.cursor = r.cs],
        item |-> ItemOf(r, TRUE), ops |-> r.ops]

(* ------------------------------- pages --------------------------------- *)
\* The engine's memory in the default (non-WRITEMAP) mode, one entry per
\* page.  Pages of the committed content are clean: they live in the
\* read-only map.  A page written in this transaction is dirty: it lives on
\* the heap and is written in place from then on.
MaxPage == 4

Pages == 1..MaxPage

NoPage == 0

NoCell == [dbi |-> "none", k |-> <<>>, v |-> NoVal]

DbiAliased(db) == "A"
\* the engine's handle of a named collection
Dbi(db) == db

RECURSIVE LayOut(_, _, _)
LayOut(S, a, mem) ==
    IF S = {} THEN mem
    ELSE LET x == CHOOSE x \in S : TRUE
         IN LayOut(S \ {x}, a + 1, [mem EXCEPT ![a] = x])

\* the pages a transaction starts from: the committed entries, all clean
CommittedPages(c0) ==
    LET S == UNION {{[dbi |-> Dbi(d), k |-> e.k, v |-> e.v] : e \in c0[d]} :
                      d \in Dbs}
        n == Cardinality(S)
    IN [mem |-> LayOut(S, 1, [a \in Pages |-> NoCell]),
        live |-> 1..n, dirty |-> {}, loose |-> <<>>, next |-> n + 1]

HasPage(pg, db, k) ==
    \E a \in pg.live : pg.mem[a].dbi = Dbi(db) /\ pg.mem[a].k = k

PageOf(pg, db, k) ==
    CHOOSE a \in pg.live : pg.mem[a].dbi = Dbi(db) /\ pg.mem[a].k = k

\* mdb_get: the value of the key's page, NoVal when there is none
PageGet(pg, db, k) ==
    IF HasPage(pg, db, k) THEN pg.mem[PageOf(pg, db, k)].v ELSE NoVal

\* the entries of a collection, read from its pages
ContentOf(pg, db) ==
    {[k |-> pg.mem[a].k, v |-> pg.mem[a].v] :
        a \in {b \in pg.live : pg.mem[b].dbi = Dbi(db)}}

AllocPageFresh(pg) == IF pg.next <= MaxPage THEN pg.next ELSE NoPage
\* mdb_page_alloc: the page freed last in this transaction (the head of the
\* loose pool) if there is one, else the next unused page of the map
AllocPage(pg) ==
    IF pg.loose # <<>> THEN Head(pg.loose)
    ELSE IF pg.next <= MaxPage THEN pg.next ELSE NoPage

\* page b is handed out
Taken(pg, b) ==
    [pg EXCEPT !.loose = IF @ # <<>> /\ Head(@) = b THEN Tail(@) ELSE @,
               !.next = IF b = @ THEN @ + 1 ELSE @,
               !.dirty = @ \cup {b},
               !.live = @ \cup {b}]

WritableInPlaceWriteMap(pg, a) == TRUE
\* mdb_page_touch: only a page that is already dirty is written in place
WritableInPlace(pg, a) == a \in pg.dirty

\* The bytes of a freed heap page can be read only through a reference that
\* still points at it; without one they are kept as NoCell.
Forget(pg, keep) ==
    [pg EXCEPT !.mem = [a \in Pages |->
                          IF a \in pg.dirty /\ a \notin pg.live /\ a \notin keep
                          THEN NoCell ELSE @[a]]]

\* mdb_put (no MDB_DUPSORT): the pages afterwards and the return code
PagePut(pg, db, k, v) ==
    LET cell == [dbi |-> Dbi(db), k |-> k, v |-> v]
        has == HasPage(pg, db, k)
    IN IF has /\ WritableInPlace(pg, PageOf(pg, db, k))
       THEN [pg |-> [pg EXCEPT !.mem[PageOf(pg, db, k)] = cell], rc |-> "ok"]
       ELSE LET b == AllocPage(pg)
                old == IF has THEN {PageOf(pg, db, k)} ELSE {}
            IN IF b = NoPage THEN [pg |-> pg, rc |-> "mapfull"]
               ELSE [pg |-> [Taken(pg, b) EXCEPT !.mem[b] = cell,
                                                 !.live = @ \ old],
                     rc |-> "ok"]

\* mdb_del: the page of the entry leaves the tree; a dirty page goes to the
\* head of the loose pool, a clean page is left for later transactions
PageDel(pg, db, k) ==
    IF ~HasPage(pg, db, k) THEN pg
    ELSE LET a == PageOf(pg, db, k)
         IN [pg EXCEPT !.live = @ \ {a},
                       !.loose = IF a \in pg.dirty THEN <<a>> \o @ ELSE @]

VARIABLES
    txns,     \* the transaction objects: kind, life, the Option handle, parent
    halves,   \* per RwTxn: the ReadHalf and WriteHalf made by split
    eng,      \* the engine's record of each native handle
    store,    \* the committed content of the environment
    view,     \* the content each native handle sees
    cur,      \* one RwCursor
    wlog,     \* per RwTxn: the pairs its WriteHalf wrote that are not yet
              \* overwritten; kept once the RwTxn has committed (by page:
              \* the pairs written through the RwTxn too, each with its via)
    op,       \* the call that made the last step
    sess,     \* the engine's pages in one read-write transaction, with the
              \* reference held through its ReadHalf
    it,       \* one RoIter
    copy,     \* the position of the copy loop of cross_db_split_iter_and_put
    rg        \* one range iterator over a fixed content

coreVars == <<txns, halves, eng, store, view, cur, wlog, op>>
auxVars == <<sess, it, copy, rg>>
vars == <<txns, halves, eng, store, view, cur, wlog, op, sess, it, copy, rg>>

\* the threads of the program
Threads == {"main", "worker"}

\* tls is the T of the Env<T> the transaction is opened from; born is the
\* thread that made the value and at the thread that holds it
NoTxn == [kind |-> "none", life |-> "none", txn |-> None, parent |-> None,
          ended |-> "none", tls |-> "WithoutTls", born |-> "main",
          at |-> "main"]
NoHalves == [r |-> FALSE, w |-> FALSE, rtxn |-> None, renv |-> "null",
             wtxn |-> None, wenv |-> "null", split |-> FALSE,
             born |-> "main", rat |-> "main", wat |-> "main"]
NoHandle == [state |-> "none", rw |-> FALSE, parent |-> None,
             nbegin |-> 0, ncommit |-> 0, nabort |-> 0]
\* the byte slices (&'txn [u8], &'txn [u8]) the program keeps from a call of
\* the cursor: the entry e they show, and the value (t, via) and handle h the
\* cursor was opened on
NoSlice == [held |-> FALSE, t |-> None, via |-> "self", h |-> None,
            db |-> "A", e |-> NoEntry]
NoCursor == [alive |-> FALSE, t |-> None, via |-> "self", db |-> "A",
             pos |-> <<>>, h |-> None, native |-> "null", nclose |-> 0,
             ref |-> NoSlice]
NoOp == [t |-> None, via |-> "self", w |-> FALSE]

\* a call on transaction object t through `via` (the object itself or one of
\* its halves); w: the call asks for a WriteTxn
Call(t, via, w) == [t |-> t, via |-> via, w |-> w]

\* the reference the program holds into a page, as obtained through the
\* ReadHalf; same, reuse and hit record what happened since: the collection of
\* the reference was written, a page was taken from the loose pool, and that
\* page was the page of the reference
NoRef == [held |-> FALSE, h |-> None, a |-> NoPage, db |-> "A",
          cell |-> NoCell, same |-> FALSE, reuse |-> FALSE, hit |-> FALSE]

NoSess == [pgs |-> [h \in Handles |-> CommittedPages(EmptyContent)],
           ref |-> NoRef]

\* the RoIter the program holds on transaction t through `via`, its cursor
\* opened on handle h; snap and seen record the entries of the collection
\* when it was made and the entries it has yielded
NoIter == [alive |-> FALSE, t |-> None, via |-> "self", h |-> None,
           db |-> "A", im |-> "Any", move_on_first |-> TRUE,
           cursor |-> Uninit, snap |-> {}, seen |-> <<>>, done |-> FALSE]

NoCopy == [pc |-> "idle", orig |-> EmptyContent]

\* std::ops::Bound<Vec<u8>>
Unbounded == [t |-> "Unbounded", k |-> <<>>]

Included(k) == [t |-> "Included", k |-> k]

Excluded(k) == [t |-> "Excluded", k |-> k]

\* the range iterator the program holds (RoRange or RoRevRange) over the
\* entries c; out is what the last call of next() returned, after and erred
\* record that an earlier call reported the end, or returned an error;
\* advanced is what advance_prefix returned for the bytes in prefix, ops
\* the cursor operations the last call handed to the engine
NoRange == [kind |-> "none", c |-> {}, start_bound |-> Unbounded,
            end_bound |-> Unbounded, im |-> "Any", move_on_start |-> TRUE,
            move_on_end |-> TRUE, cursor |-> Uninit,
            out |-> [tag |-> "nocall", e |-> NoEntry],
            after |-> FALSE, erred |-> FALSE,
            prefix |-> <<>>, move_on_first |-> TRUE, seq |-> <<>>,
            move_on_last |-> TRUE, ds |-> TRUE, calls |-> <<>>,
            called |-> "none", advanced |-> FALSE, ops |-> <<>>,
            kc |-> "Bytes", dc |-> "Bytes"]

\* an environment with committed content c0 and no transaction yet
CoreInit(c0) ==
    /\ txns = [t \in Slots |-> NoTxn]
    /\ halves = [t \in Slots |-> NoHalves]
    /\ eng = [h \in Handles |-> NoHandle]
    /\ store = c0
    /\ view = [h \in Handles |-> EmptyContent]
    /\ cur = NoCursor
    /\ wlog = [t \in Slots |-> {}]
    /\ op = NoOp


(* ------------------------- capabilities -------------------------------- *)
\* the four types that implement ReadTxn
IsReadTxn(kind) == kind \in {"RoTxn", "RwTxn", "ReadHalf", "WriteHalf"}

IsWriteTxnAlsoReadHalf(kind) == kind \in {"RwTxn", "WriteHalf", "ReadHalf"}
\* the two types that implement WriteTxn
IsWriteTxn(kind) == kind \in {"RwTxn", "WriteHalf"}

\* the type of the value a call goes through: the transaction object itself
\* or one of its halves
ViewKind(t, via) ==
    IF via = "self" THEN txns[t].kind
    ELSE IF via = "read" THEN "ReadHalf" ELSE "WriteHalf"

\* ReadTxn::txn_ptr of the four implementors
TxnPtr(t, via) ==
    IF via = "self" THEN txns[t].txn
    ELSE IF via = "read" THEN halves[t].rtxn ELSE halves[t].wtxn

\* self.txn.inner.env.env_mut_ptr(): there is one environment
EnvMutPtr(t) == "env"

(* ----------------------------- borrows --------------------------------- *)
SplitBorrowWriteHalfOnly(h) == h.w
\* split(&mut self) -> (ReadHalf<'_>, WriteHalf<'_>): the exclusive borrow of
\* the parent lasts as long as either half
SplitBorrow(h) == h.r \/ h.w

\* nested(env, parent: &'p mut RwTxn) -> RwTxn<'p>
NestedBorrow(t) ==
    \E c \in Slots : txns[c].life = "live" /\ txns[c].parent = t

CursorBorrowOfIterOnly(t, via) == it.alive /\ it.t = t /\ it.via = via

\* RoCursor::new(txn: &'txn impl ReadTxn, ..) -> RoCursor<'txn>, of the
\* write cursor and of the iterator's cursor
CursorBorrow(t, via) ==
    \/ cur.alive /\ cur.t = t /\ cur.via = via
    \/ it.alive /\ it.t = t /\ it.via = via

SliceBorrowOfCursor(t, via) ==
    cur.alive /\ cur.ref.held /\ cur.ref.t = t /\ cur.ref.via = via
\* current(&mut self) -> Result<Option<(&'txn [u8], &'txn [u8])>>: the slices
\* carry the lifetime 'txn of the borrow the cursor was made with, not the
\* lifetime of `&mut self`
SliceBorrow(t, via) == cur.ref.held /\ cur.ref.t = t /\ cur.ref.via = via

\* a parent that could be used while its child lives
CanRefIgnoringChild(t, via) ==
    IF via = "self"
    THEN txns[t].life = "live" /\ ~SplitBorrow(halves[t])
    ELSE IF via = "read" THEN halves[t].r ELSE halves[t].w

\* the value exists and a shared reference to it can be taken
CanRef(t, via) ==
    IF via = "self"
    THEN txns[t].life = "live" /\ ~SplitBorrow(halves[t]) /\ ~NestedBorrow(t)
    ELSE IF via = "read" THEN halves[t].r ELSE halves[t].w

\* ... an exclusive reference can be taken, or the value moved or dropped
CanMut(t, via) ==
    CanRef(t, via) /\ ~CursorBorrow(t, via) /\ ~SliceBorrow(t, via)

(* ------------------------------ engine --------------------------------- *)
\* mdb_txn_begin
EngBegin(e, h, rw, parent) ==
    [e EXCEPT ![h] = [state |-> "active", rw |-> rw, parent |-> parent,
                      nbegin |-> 1, ncommit |-> 0, nabort |-> 0]]

\* mdb_txn_commit with its status
EngCommit(e, h, status) ==
    [e EXCEPT ![h].ncommit = @ + 1,
              ![h].state = IF status = "ok" THEN "committed" ELSE "failed"]

\* mdb_txn_abort
EngAbort(e, h) ==
    [e EXCEPT ![h].nabort = @ + 1,
              ![h].state = IF @ = "active" THEN "aborted" ELSE @]

\* the single writer: a top-level read-write begin waits for this
WriterFree ==
    \A h \in Handles :
        ~(eng[h].state = "active" /\ eng[h].rw /\ eng[h].parent = None)

\* the pairs of w that content c still holds
Prune(w, c) == {x \in w : [k |-> x.k, v |-> x.v] \in c[x.db]}

(* ------------------------ transaction objects -------------------------- *)
FreeSlot(t) ==
    /\ txns[t].life = "none"
    /\ \A u \in Slots : u < t => txns[u].life # "none"

TakeTxnKeep(field) == field
\* Option::take: the field is None afterwards
TakeTxn(field) == None

\* impl Drop for RoTxn: abort the handle the field still holds, if any
DropTxnEng(e, field) == IF field # None THEN EngAbort(e, field) ELSE e

\* RoTxn::new
RoTxnNew(t) ==
    /\ FreeSlot(t)
    /\ txns' = [txns EXCEPT ![t] = [kind |-> "RoTxn", life |-> "live",
                                    txn |-> t, parent |-> None,
                                    ended |-> "none", tls |-> txns[t].tls,
                                    born |-> txns[t].born, at |-> txns[t].born]]
    /\ eng' = EngBegin(eng, t, FALSE, None)
    /\ view' = [view EXCEPT ![t] = store]
    /\ op' = Call(t, "self", FALSE)
    /\ UNCHANGED <<halves, store, cur, wlog>>

RwTxnNewRdOnly(t) ==
    /\ FreeSlot(t)
    /\ txns' = [txns EXCEPT ![t] = [kind |-> "RwTxn", life |-> "live",
                                    txn |-> t, parent |-> None,
                                    ended |-> "none", tls |-> txns[t].tls,
                                    born |-> txns[t].born, at |-> txns[t].born]]
    /\ eng' = EngBegin(eng, t, FALSE, None)
    /\ view' = [view EXCEPT ![t] = store]
    /\ op' = Call(t, "self", FALSE)
    /\ UNCHANGED <<halves, store, cur, wlog>>

\* RwTxn::new: mdb_txn_begin with no parent and flags 0 returns once no other
\* top-level read-write transaction is active
RwTxnNew(t) ==
    /\ FreeSlot(t)
    /\ WriterFree
    /\ txns' = [txns EXCEPT ![t] = [kind |-> "RwTxn", life |-> "live",
                                    txn |-> t, parent |-> None,
                                    ended |-> "none", tls |-> txns[t].tls,
                                    born |-> txns[t].born, at |-> txns[t].born]]
    /\ eng' = EngBegin(eng, t, TRUE, None)
    /\ view' = [view EXCEPT ![t] = store]
    /\ op' = Call(t, "self", FALSE)
    /\ UNCHANGED <<halves, store, cur, wlog>>

\* RwTxn::new seen by its caller, in two steps: the call is made, and the
\* call returns.  In between the thread is inside mdb_txn_begin, which has no
\* timeout and returns once no other top-level read-write transaction is
\* active.
RwTxnCall(t) ==
    /\ FreeSlot(t)
    /\ txns' = [txns EXCEPT ![t] = [kind |-> "RwTxn", life |-> "waiting",
                                    txn |-> None, parent |-> None,
                                    ended |-> "none", tls |-> txns[t].tls,
                                    born |-> txns[t].born, at |-> txns[t].born]]
    /\ op' = Call(t, "self", FALSE)
    /\ UNCHANGED <<halves, eng, store, view, cur, wlog>>

RwTxnReturnBusy(t) ==
    /\ txns[t].life = "waiting"
    /\ IF WriterFree
       THEN /\ txns' = [txns EXCEPT ![t].life = "live", ![t].txn = t]
            /\ eng' = EngBegin(eng, t, TRUE, None)
            /\ view' = [view EXCEPT ![t] = store]
       ELSE /\ txns' = [txns EXCEPT ![t].life = "dropped",
                                    ![t].ended = "error"]
            /\ UNCHANGED <<eng, view>>
    /\ op' = Call(t, "self", FALSE)
    /\ UNCHANGED <<halves, store, cur, wlog>>

RwTxnReturn(t) ==
    /\ txns[t].life = "waiting"
    /\ WriterFree
    /\ txns' = [txns EXCEPT ![t].life = "live", ![t].txn = t]
    /\ eng' = EngBegin(eng, t, TRUE, None)
    /\ view' = [view EXCEPT ![t] = store]
    /\ op' = Call(t, "self", FALSE)
    /\ UNCHANGED <<halves, store, cur, wlog>>

NestedNoParent(t, p) ==
    /\ FreeSlot(t)
    /\ txns[p].kind = "RwTxn"
    /\ CanMut(p, "self")
    /\ txns[p].txn # None
    /\ txns' = [txns EXCEPT ![t] = [kind |-> "RwTxn", life |-> "live",
                                    txn |-> t, parent |-> p,
                                    ended |-> "none", tls |-> txns[t].tls,
                                    born |-> txns[p].at, at |-> txns[p].at]]
    /\ eng' = EngBegin(eng, t, TRUE, None)
    /\ view' = [view EXCEPT ![t] = view[txns[p].txn]]
    /\ op' = Call(t, "self", FALSE)
    /\ UNCHANGED <<halves, store, cur, wlog>>

\* RwTxn::nested
Nested(t, p) ==
    /\ FreeSlot(t)
    /\ txns[p].kind = "RwTxn"
    /\ CanMut(p, "self")
    /\ txns[p].txn # None
    /\ txns' = [txns EXCEPT ![t] = [kind |-> "RwTxn", life |-> "live",
                                    txn |-> t, parent |-> p,
                                    ended |-> "none", tls |-> txns[t].tls,
                                    born |-> txns[p].at, at |-> txns[p].at]]
    /\ eng' = EngBegin(eng, t, TRUE, txns[p].txn)
    /\ view' = [view EXCEPT ![t] = view[txns[p].txn]]
    /\ op' = Call(t, "self", FALSE)
    /\ UNCHANGED <<halves, store, cur, wlog>>

\* a commit that gives up the handle only when the engine accepted it
CommitKeepingOnError(t, status) ==
    /\ CanMut(t, "self")
    /\ txns[t].txn # None
    /\ LET h == txns[t].txn
           left == IF status = "ok" THEN TakeTxn(txns[t].txn) ELSE txns[t].txn
           p == eng[h].parent
           ok == status = "ok" /\ eng[h].rw
       IN /\ txns' = [txns EXCEPT ![t].txn = None, ![t].life = "dropped",
                                  ![t].ended = "commit"]
          /\ eng' = DropTxnEng(EngCommit(eng, h, status), left)
          /\ store' = IF ok /\ p = None THEN view[h] ELSE store
          /\ view' = IF ok /\ p # None
                     THEN [view EXCEPT ![p] = view[h], ![h] = EmptyContent]
                     ELSE [view EXCEPT ![h] = EmptyContent]
          /\ wlog' = IF ok /\ p # None
                     THEN [wlog EXCEPT ![p] = Prune(@, view[h])]
                     ELSE IF ok THEN wlog ELSE [wlog EXCEPT ![t] = {}]
          /\ op' = Call(t, "self", FALSE)
    /\ halves' = [halves EXCEPT ![t] = NoHalves]
    /\ UNCHANGED cur

\* RoTxn::commit and RwTxn::commit, with the drop of `self` that ends them
Commit(t, status) ==
    /\ CanMut(t, "self")
    /\ txns[t].txn # None
    /\ LET h == txns[t].txn
           left == TakeTxn(txns[t].txn)
           p == eng[h].parent
           ok == status = "ok" /\ eng[h].rw
       IN /\ txns' = [txns EXCEPT ![t].txn = left, ![t].life = "dropped",
                                  ![t].ended = "commit"]
          /\ eng' = DropTxnEng(EngCommit(eng, h, status), left)
          /\ store' = IF ok /\ p = None THEN view[h] ELSE store
          /\ view' = IF ok /\ p # None
                     THEN [view EXCEPT ![p] = view[h], ![h] = EmptyContent]
                     ELSE [view EXCEPT ![h] = EmptyContent]
          /\ wlog' = IF ok /\ p # None
                     THEN [wlog EXCEPT ![p] = Prune(@, view[h])]
                     ELSE IF ok THEN wlog ELSE [wlog EXCEPT ![t] = {}]
          /\ op' = Call(t, "self", FALSE)
    /\ halves' = [halves EXCEPT ![t] = NoHalves]
    /\ UNCHANGED cur

\* an abort that takes &mut self and leaves the object in scope
AbortByRef(t) ==
    /\ txns[t].kind = "RwTxn"
    /\ CanMut(t, "self")
    /\ txns[t].txn # None
    /\ LET h == txns[t].txn
           left == TakeTxn(txns[t].txn)
       IN /\ txns' = [txns EXCEPT ![t].txn = left, ![t].ended = "abort"]
          /\ eng' = EngAbort(eng, h)
          /\ view' = [view EXCEPT ![h] = EmptyContent]
    /\ wlog' = [wlog EXCEPT ![t] = {}]
    /\ halves' = [halves EXCEPT ![t] = NoHalves]
    /\ op' = Call(t, "self", FALSE)
    /\ UNCHANGED <<store, cur>>

\* RwTxn::abort, with the drop of `self` that ends it
Abort(t) ==
    /\ txns[t].kind = "RwTxn"
    /\ CanMut(t, "self")
    /\ txns[t].txn # None
    /\ LET h == txns[t].txn
           left == TakeTxn(txns[t].txn)
       IN /\ txns' = [txns EXCEPT ![t].txn = left, ![t].life = "dropped",
                                  ![t].ended = "abort"]
          /\ eng' = DropTxnEng(EngAbort(eng, h), left)
          /\ view' = [view EXCEPT ![h] = EmptyContent]
    /\ wlog' = [wlog EXCEPT ![t] = {}]
    /\ halves' = [halves EXCEPT ![t] = NoHalves]
    /\ op' = Call(t, "self", FALSE)
    /\ UNCHANGED <<store, cur>>

\* a transaction object goes out of scope: impl Drop for RoTxn
DropTxn(t) ==
    /\ CanMut(t, "self")
    /\ txns' = [txns EXCEPT ![t].txn = None, ![t].life = "dropped",
                            ![t].ended = "drop"]
    /\ eng' = DropTxnEng(eng, txns[t].txn)
    /\ view' = IF txns[t].txn # None
               THEN [view EXCEPT ![txns[t].txn] = EmptyContent] ELSE view
    /\ wlog' = [wlog EXCEPT ![t] = {}]
    /\ halves' = [halves EXCEPT ![t] = NoHalves]
    /\ op' = Call(t, "self", FALSE)
    /\ UNCHANGED <<store, cur>>

(* ------------------------------ split ---------------------------------- *)
\* RwTxn::split
Split(t) ==
    /\ txns[t].kind = "RwTxn"
    /\ CanMut(t, "self")
    /\ txns[t].txn # None
    /\ LET txn == txns[t].txn
           env == EnvMutPtr(t)
       IN halves' = [halves EXCEPT ![t] =
              [r |-> TRUE, w |-> TRUE, rtxn |-> txn, renv |-> env,
               wtxn |-> txn, wenv |-> env, split |-> TRUE,
               born |-> txns[t].at, rat |-> txns[t].at, wat |-> txns[t].at]]
    /\ op' = Call(t, "self", FALSE)
    /\ UNCHANGED <<txns, eng, store, view, cur, wlog>>

DropHalfEngAborts(e, h) == EngAbort(e, h)
\* ReadHalf and WriteHalf have no Drop impl: dropping one calls nothing
DropHalfEng(e, h) == e

DropReadHalf(t) ==
    /\ CanMut(t, "read")
    /\ halves' = [halves EXCEPT ![t].r = FALSE, ![t].rtxn = None,
                                ![t].renv = "null"]
    /\ eng' = DropHalfEng(eng, halves[t].rtxn)
    /\ op' = Call(t, "read", FALSE)
    /\ UNCHANGED <<txns, store, view, cur, wlog>>

DropWriteHalf(t) ==
    /\ CanMut(t, "write")
    /\ halves' = [halves EXCEPT ![t].w = FALSE, ![t].wtxn = None,
                                ![t].wenv = "null"]
    /\ eng' = DropHalfEng(eng, halves[t].wtxn)
    /\ op' = Call(t, "write", FALSE)
    /\ UNCHANGED <<txns, store, view, cur, wlog>>

(* ------------------------------ threads -------------------------------- *)
IsSendAlways(kind, tls) == TRUE
\* unsafe impl Send for RoTxn<'_, WithoutTls>; RwTxn holds a
\* RoTxn<'p, WithoutTls>; RoTxn<WithTls>, ReadHalf and WriteHalf hold a
\* NonNull and have no impl
IsSend(kind, tls) ==
    \/ kind = "RwTxn"
    \/ kind = "RoTxn" /\ tls = "WithoutTls"

\* the thread that holds the value: every call through it is made there
At(t, via) ==
    IF via = "self" THEN txns[t].at
    ELSE IF via = "read" THEN halves[t].rat ELSE halves[t].wat

\* the value is moved to thread th (a spawned closure takes it, or it goes
\* through a channel), which requires Send
SendTo(t, via, th) ==
    /\ CanMut(t, via)
    /\ IsSend(ViewKind(t, via), txns[t].tls)
    /\ th # At(t, via)
    /\ txns' = IF via = "self" THEN [txns EXCEPT ![t].at = th] ELSE txns
    /\ halves' = IF via = "read" THEN [halves EXCEPT ![t].rat = th]
                 ELSE IF via = "write" THEN [halves EXCEPT ![t].wat = th]
                 ELSE halves
    /\ op' = Call(t, via, FALSE)
    /\ UNCHANGED <<eng, store, view, cur, wlog>>

(* ------------------------- reads and writes ---------------------------- *)
Vias == {"self", "read", "write"}

\* Database::get(&impl ReadTxn, key)
Get(t, via, db, k) ==
    /\ CanRef(t, via)
    /\ IsReadTxn(ViewKind(t, via))
    /\ TxnPtr(t, via) # None
    /\ op' = Call(t, via, FALSE)
    /\ UNCHANGED <<txns, halves, eng, store, view, cur, wlog>>

\* Database::put(&mut impl WriteTxn, key, value)
Put(t, via, db, k, v) ==
    /\ CanMut(t, via)
    /\ IsWriteTxn(ViewKind(t, via))
    /\ TxnPtr(t, via) # None
    /\ view' = [view EXCEPT ![TxnPtr(t, via)][db] = PutContent(@, FALSE, k, v)]
    /\ wlog' = [wlog EXCEPT ![t] =
                   {x \in @ : ~(x.db = db /\ x.k = k)}
                   \cup (IF via = "write"
                         THEN {[db |-> db, k |-> k, v |-> v]} ELSE {})]
    /\ op' = Call(t, via, TRUE)
    /\ UNCHANGED <<txns, halves, eng, store, cur>>

\* Database::delete(&mut impl WriteTxn, key)
Delete(t, via, db, k) ==
    /\ CanMut(t, via)
    /\ IsWriteTxn(ViewKind(t, via))
    /\ TxnPtr(t, via) # None
    /\ view' = [view EXCEPT ![TxnPtr(t, via)][db] = DelContent(@, k)]
    /\ wlog' = [wlog EXCEPT ![t] = {x \in @ : ~(x.db = db /\ x.k = k)}]
    /\ op' = Call(t, via, TRUE)
    /\ UNCHANGED <<txns, halves, eng, store, cur>>

(* ---------------------------- write cursor ----------------------------- *)
\* RwCursor::new(txn: &'txn impl WriteTxn, dbi)
RwCursorNew(t, via, db, status) ==
    /\ ~cur.alive
    /\ CanRef(t, via)
    /\ IsWriteTxn(ViewKind(t, via))
    /\ TxnPtr(t, via) # None
    /\ cur' = IF status = "ok"
              THEN [alive |-> TRUE, t |-> t, via |-> via, db |-> db,
                    pos |-> <<>>, h |-> TxnPtr(t, via), native |-> "open",
                    nclose |-> 0, ref |-> cur.ref]
              ELSE [NoCursor EXCEPT !.native = "failed", !.ref = cur.ref]
    /\ op' = Call(t, via, TRUE)
    /\ UNCHANGED <<txns, halves, eng, store, view, wlog>>

\* RoCursor::move_on_key through the RwCursor's DerefMut
MoveOnKey(k) ==
    /\ cur.alive
    /\ LET found == HasKey(view[TxnPtr(cur.t, cur.via)][cur.db], k)
       IN /\ cur' = [cur EXCEPT !.pos = IF found THEN k ELSE <<>>]
          /\ op' = Call(cur.t, cur.via, FALSE)
    /\ UNCHANGED <<txns, halves, eng, store, view, wlog>>

\* RwCursor::del_current: deletes the entry of a positioned cursor; on a
\* cursor that is on no entry mdb_cursor_del fails and nothing changes
DelCurrent ==
    /\ cur.alive
    /\ LET h == TxnPtr(cur.t, cur.via)
       IN /\ view' = IF cur.pos # <<>>
                     THEN [view EXCEPT ![h][cur.db] = DelContent(@, cur.pos)]
                     ELSE view
          /\ wlog' = [wlog EXCEPT ![cur.t] =
                         {x \in @ : ~(x.db = cur.db /\ x.k = cur.pos)}]
          /\ op' = Call(cur.t, cur.via, TRUE)
    /\ cur' = [cur EXCEPT !.pos = <<>>]
    /\ UNCHANGED <<txns, halves, eng, store>>

\* impl Drop for RoCursor
DropCursor ==
    /\ cur.alive
    /\ cur' = [NoCursor EXCEPT !.native = "closed", !.h = cur.h,
                               !.nclose = cur.nclose + 1, !.ref = cur.ref]
    /\ op' = Call(cur.t, cur.via, FALSE)
    /\ UNCHANGED <<txns, halves, eng, store, view, wlog>>

\* RoCursor::current through the RwCursor's DerefMut; the program keeps the
\* slices of Ok(Some((key, data))) and lets go of those it kept before
Current ==
    /\ cur.alive
    /\ LET c == view[cur.h][cur.db]
       IN cur' = [cur EXCEPT !.ref =
              IF cur.pos # <<>> /\ HasKey(c, cur.pos)
              THEN [held |-> TRUE, t |-> cur.t, via |-> cur.via, h |-> cur.h,
                    db |-> cur.db,
                    e |-> [k |-> cur.pos, v |-> GetContent(c, cur.pos)]]
              ELSE @]
    /\ op' = Call(cur.t, cur.via, FALSE)
    /\ UNCHANGED <<txns, halves, eng, store, view, wlog>>

\* the last use of the slices the program kept
DropSlice ==
    /\ cur.ref.held
    /\ cur' = [cur EXCEPT !.ref = NoSlice]
    /\ op' = Call(cur.ref.t, cur.ref.via, FALSE)
    /\ UNCHANGED <<txns, halves, eng, store, view, wlog>>

(* ------------------------------- Spec ---------------------------------- *)
Init ==
    /\ CoreInit(EmptyContent)
    /\ sess = NoSess
    /\ it = NoIter
    /\ copy = NoCopy
    /\ rg = NoRange

Next ==
    \/ \E t \in Slots : RoTxnNew(t)
           /\ UNCHANGED auxVars
    \/ \E t \in Slots : RwTxnNew(t)
           /\ UNCHANGED auxVars
    \/ \E t, p \in Slots : Nested(t, p)
           /\ UNCHANGED auxVars
    \/ \E t \in Slots, status \in {"ok", "err"} : Commit(t, status)
           /\ UNCHANGED auxVars
    \/ \E t \in Slots : Abort(t)
           /\ UNCHANGED auxVars
    \/ \E t \in Slots : DropTxn(t)
           /\ UNCHANGED auxVars
    \/ \E t \in Slots : Split(t)
           /\ UNCHANGED auxVars
    \/ \E t \in Slots : DropReadHalf(t)
           /\ UNCHANGED auxVars
    \/ \E t \in Slots : DropWriteHalf(t)
           /\ UNCHANGED auxVars
    \/ \E t \in Slots, via \in Vias, db \in LifeDbs, k \in LifeKeys :
           Get(t, via, db, k)
           /\ UNCHANGED auxVars
    \/ \E t \in Slots, via \in Vias, db \in LifeDbs, k \in LifeKeys, v \in Vals :
           Put(t, via, db, k, v)
           /\ UNCHANGED auxVars
    \/ \E t \in Slots, via \in Vias, db \in LifeDbs, k \in LifeKeys :
           Delete(t, via, db, k)
           /\ UNCHANGED auxVars
    \/ \E t \in Slots, via \in Vias, db \in LifeDbs, status \in {"ok", "err"} :
           RwCursorNew(t, via, db, status)
           /\ UNCHANGED auxVars
    \/ \E k \in LifeKeys : MoveOnKey(k)
           /\ UNCHANGED auxVars
    \/ DelCurrent
           /\ UNCHANGED auxVars
    \/ DropCursor
           /\ UNCHANGED auxVars

Spec == Init /\ [][Next]_vars

(* ======================= transaction lifetime ========================== *)
\* C1: every transaction object's native handle gets exactly one
\* txn_commit or txn_abort over the object's life: commit() calls txn_commit
\* once, abort() calls txn_abort once, the drop after either calls nothing,
\* and an object dropped without commit or abort gets one txn_abort.
C1_HandleEndedExactlyOnce ==
    \A t \in Slots :
        /\ txns[t].life = "live" =>
               txns[t].txn = t /\ eng[t].ncommit = 0 /\ eng[t].nabort = 0
        /\ txns[t].life = "dropped" =>
               /\ txns[t].txn = None
               /\ eng[t].nbegin = 1
               /\ txns[t].ended = "commit" =>
                      eng[t].ncommit = 1 /\ eng[t].nabort = 0
               /\ txns[t].ended \in {"abort", "drop"} =>
                      eng[t].ncommit = 0 /\ eng[t].nabort = 1

\* a read-only transaction committed, a read-write one aborted and a third
\* object dropped without either
C1_Witness ==
    \E a, b, c \in Slots :
        /\ txns[a].life = "dropped" /\ txns[a].ended = "commit"
        /\ txns[a].kind = "RoTxn"
        /\ txns[b].life = "dropped" /\ txns[b].ended = "abort"
        /\ txns[c].life = "dropped" /\ txns[c].ended = "drop"

\* C2: from split until both halves are dropped no call goes through the
\* parent RwTxn itself (commit, abort, split, nested, read, write, cursor);
\* one dropped half does not give the parent back.
C2_ParentUnusableWhileSplit ==
    [][\A t \in Slots :
          (halves[t].r \/ halves[t].w) => ~(op'.t = t /\ op'.via = "self")]_vars

\* the WriteHalf is dropped, the ReadHalf is still held, and the last call
\* went through the ReadHalf
C2_Witness ==
    \E t \in Slots :
        /\ txns[t].life = "live" /\ halves[t].split
        /\ halves[t].r /\ ~halves[t].w
        /\ op.t = t /\ op.via = "read"

\* C3: every call that asks for a WriteTxn (put, delete, RwCursor::new,
\* del_current) goes through a RwTxn or a WriteHalf, never through a
\* ReadHalf or a RoTxn, and of the two halves of one transaction at most one
\* can mutate.
C3_OnlyWriteTxnMutates ==
    /\ op.w => ViewKind(op.t, op.via) \in {"RwTxn", "WriteHalf"}
    /\ cur.alive => ViewKind(cur.t, cur.via) \in {"RwTxn", "WriteHalf"}
    /\ \A t \in Slots :
           Cardinality({via \in {"read", "write"} :
                           CanRef(t, via) /\ IsWriteTxn(ViewKind(t, via))}) <= 1

\* a write went through the WriteHalf while the ReadHalf is alive
C3_Witness ==
    /\ op.w /\ op.via = "write"
    /\ halves[op.t].r /\ halves[op.t].w
    /\ view[halves[op.t].wtxn]["A"] # {}

(* the parts of C4 *)
HalvesCarryParentHandles ==
    \A t \in Slots :
        /\ halves[t].r =>
               /\ halves[t].rtxn = txns[t].txn /\ halves[t].rtxn # None
               /\ halves[t].renv = EnvMutPtr(t)
        /\ halves[t].w =>
               /\ halves[t].wtxn = txns[t].txn /\ halves[t].wtxn # None
               /\ halves[t].wenv = EnvMutPtr(t)

ParentLiveAfterHalves ==
    \A t \in Slots :
        (txns[t].life = "live" /\ halves[t].split
            /\ ~halves[t].r /\ ~halves[t].w)
        => (txns[t].txn # None /\ eng[txns[t].txn].state = "active"
            /\ eng[txns[t].txn].ncommit = 0 /\ eng[txns[t].txn].nabort = 0)

\* a step that is split or the drop of a half: the halves change, the
\* transaction object does not
SplitOrHalfDropStep(t) == halves'[t] # halves[t] /\ txns'[t] = txns[t]

\* a step in which commit() of RwTxn t returns Ok
CommitOkStep(t) ==
    /\ txns[t].kind = "RwTxn" /\ txns[t].life = "live"
    /\ txns'[t].ended = "commit" /\ eng'[t].state = "committed"

Visible(w, c) == \A x \in w : [k |-> x.k, v |-> x.v] \in c[x.db]

\* C4 as claimed: the halves carry the parent's handles, split and the drops
\* of the halves make no engine call, the parent's handle is live after
\* both drops, and a successful commit() of any split parent puts the
\* WriteHalf's writes into the content that later transactions begin from.
C4_AsClaimed ==
    [][/\ HalvesCarryParentHandles'
       /\ ParentLiveAfterHalves'
       /\ \A t \in Slots :
              /\ SplitOrHalfDropStep(t) => eng' = eng
              /\ CommitOkStep(t) => Visible(wlog[t], store')]_vars

\* C4 amended: as claimed, the commit() being that of a top-level parent.
C4_SplitSharesHandleAndCommits ==
    [][/\ HalvesCarryParentHandles'
       /\ ParentLiveAfterHalves'
       /\ \A t \in Slots :
              /\ SplitOrHalfDropStep(t) => eng' = eng
              /\ (CommitOkStep(t) /\ txns[t].parent = None)
                    => Visible(wlog[t], store')]_vars

\* a top-level RwTxn was split, written through its WriteHalf and committed,
\* and a read-only transaction begun afterwards sees the write
C4_Witness ==
    \E t, r \in Slots :
        /\ txns[t].kind = "RwTxn" /\ txns[t].parent = None
        /\ txns[t].ended = "commit" /\ eng[t].state = "committed"
        /\ wlog[t] # {}
        /\ t < r /\ txns[r].kind = "RoTxn" /\ txns[r].life = "live"
        /\ Visible(wlog[t], view[r])

(* ===================== one split transaction, by page ================== *)
\* The transaction object of this part, and the keys it reads and writes
PgTxn == 1

PgKeys == KeysOfLen(1)

\* the keys written to each collection
PgKeysOf(db) == IF db = "A" THEN PgKeys ELSE {CHOOSE k \in PgKeys : TRUE}

\* the program reads A through the ReadHalf and writes B through the
\* WriteHalf only
PgDbsOf(via) == IF via = "write" THEN Dbs ELSE {"A"}

\* it writes through the RwTxn before the split and through the WriteHalf
\* after it
PgWriters == IF halves[PgTxn].split THEN {"write"} ELSE {"self"}

\* the contents over a set of keys, one value per key
ContentsOver(K) ==
    {c \in SUBSET [k : K, v : Vals] : \A e, f \in c : e.k = f.k => e = f}

\* the page the held reference points at
RefPages(r) == IF r.held THEN {r.a} ELSE {}

\* what the reference denotes now: the bytes of the page it points into
Deref(r) == sess.pgs[r.h].mem[r.a]

\* collection A holds committed entries, all of one value; collection B was
\* created empty
InitPages ==
    \E a0 \in {c \in ContentsOver(PgKeys) : \A e \in c : e.v = MaxVal} :
        LET c0 == [d \in Dbs |-> IF d = "A" THEN a0 ELSE {}]
        IN /\ CoreInit(c0)
           /\ sess = [NoSess EXCEPT
                          !.pgs = [h \in Handles |-> CommittedPages(c0)]]
           /\ it = NoIter
           /\ copy = NoCopy
           /\ rg = NoRange

\* a get that reads the committed pages, as a read-only transaction opened
\* before the writes would
PgGetOfSnapshot(via, db, k) ==
    /\ CanRef(PgTxn, via)
    /\ IsReadTxn(ViewKind(PgTxn, via))
    /\ TxnPtr(PgTxn, via) # None
    /\ LET h == TxnPtr(PgTxn, via)
           pg == CommittedPages(store)
           found == HasPage(pg, db, k)
           a == PageOf(pg, db, k)
           ref == IF via = "read" /\ found
                  THEN [held |-> TRUE, h |-> h, a |-> a, db |-> db,
                        cell |-> pg.mem[a], same |-> FALSE, reuse |-> FALSE,
                        hit |-> FALSE]
                  ELSE sess.ref
       IN sess' = [pgs |-> [sess.pgs EXCEPT ![h] = Forget(@, RefPages(ref))],
                   ref |-> ref]
    /\ op' = Call(PgTxn, via, FALSE)
    /\ UNCHANGED <<txns, halves, eng, store, view, cur, wlog, it, copy, rg>>

\* Database::get(&txn, key): the value, and through the ReadHalf a reference
\* the program keeps
PgGet(via, db, k) ==
    /\ CanRef(PgTxn, via)
    /\ IsReadTxn(ViewKind(PgTxn, via))
    /\ TxnPtr(PgTxn, via) # None
    /\ LET h == TxnPtr(PgTxn, via)
           pg == sess.pgs[h]
           found == HasPage(pg, db, k)
           a == PageOf(pg, db, k)
           ref == IF via = "read" /\ found
                  THEN [held |-> TRUE, h |-> h, a |-> a, db |-> db,
                        cell |-> pg.mem[a], same |-> FALSE, reuse |-> FALSE,
                        hit |-> FALSE]
                  ELSE sess.ref
       IN sess' = [pgs |-> [sess.pgs EXCEPT ![h] = Forget(@, RefPages(ref))],
                   ref |-> ref]
    /\ op' = Call(PgTxn, via, FALSE)
    /\ UNCHANGED <<txns, halves, eng, store, view, cur, wlog, it, copy, rg>>

\* Database::put(&mut txn, key, value); fails when the map is full
PgPut(via, db, k, v) ==
    /\ CanMut(PgTxn, via)
    /\ IsWriteTxn(ViewKind(PgTxn, via))
    /\ TxnPtr(PgTxn, via) # None
    /\ LET h == TxnPtr(PgTxn, via)
           pg == sess.pgs[h]
           r == PagePut(pg, db, k, v)
           joined == r.pg.live \ pg.live
       IN /\ sess' = [sess EXCEPT
                 !.pgs[h] = r.pg,
                 !.ref = IF @.held
                         THEN [@ EXCEPT
                                 !.same = @ \/ db = sess.ref.db,
                                 !.reuse = @ \/ (joined # {} /\ pg.loose # <<>>),
                                 !.hit = @ \/ sess.ref.a \in joined]
                         ELSE @]
          /\ view' = IF r.rc = "ok"
                     THEN [view EXCEPT ![h][db] = PutContent(@, FALSE, k, v)]
                     ELSE view
          /\ wlog' = IF r.rc = "ok"
                     THEN [wlog EXCEPT ![PgTxn] =
                              {x \in @ : ~(x.db = db /\ x.k = k)}
                                  \cup {[db |-> db, k |-> k, v |-> v,
                                         via |-> via]}]
                     ELSE wlog
    /\ op' = Call(PgTxn, via, TRUE)
    /\ UNCHANGED <<txns, halves, eng, store, cur, it, copy, rg>>

\* Database::delete(&mut txn, key)
PgDelete(via, db, k) ==
    /\ CanMut(PgTxn, via)
    /\ IsWriteTxn(ViewKind(PgTxn, via))
    /\ TxnPtr(PgTxn, via) # None
    /\ LET h == TxnPtr(PgTxn, via)
       IN /\ sess' = [sess EXCEPT
                 !.pgs[h] = Forget(PageDel(@, db, k), RefPages(sess.ref)),
                 !.ref = IF @.held THEN [@ EXCEPT !.same = @ \/ db = sess.ref.db]
                         ELSE @]
          /\ view' = [view EXCEPT ![h][db] = DelContent(@, k)]
          /\ wlog' = [wlog EXCEPT ![PgTxn] =
                          {x \in @ : ~(x.db = db /\ x.k = k)}]
    /\ op' = Call(PgTxn, via, TRUE)
    /\ UNCHANGED <<txns, halves, eng, store, cur, it, copy, rg>>

\* the ReadHalf goes out of scope, and with it the reference borrowed from it
PgDropReadHalf ==
    /\ DropReadHalf(PgTxn)
    /\ sess' = [sess EXCEPT !.ref = NoRef,
                            !.pgs[halves[PgTxn].rtxn] = Forget(@, {})]
    /\ UNCHANGED <<it, copy, rg>>

PgNext ==
    \/ RwTxnNew(PgTxn) /\ UNCHANGED auxVars
    \/ Split(PgTxn) /\ UNCHANGED auxVars
    \/ \E db \in PgDbsOf("read") : \E k \in PgKeysOf(db) : PgGet("read", db, k)
    \/ \E via \in PgWriters, v \in Vals :
           \E db \in PgDbsOf(via) : \E k \in PgKeysOf(db) : PgPut(via, db, k, v)
    \/ \E via \in PgWriters :
           \E db \in PgDbsOf(via) : \E k \in PgKeysOf(db) : PgDelete(via, db, k)
    \/ PgDropReadHalf
    \/ DropWriteHalf(PgTxn) /\ UNCHANGED auxVars
    \/ \E status \in {"ok", "err"} : Commit(PgTxn, status) /\ UNCHANGED auxVars

SpecPages == InitPages /\ [][PgNext]_vars

\* the pages and the logical content of the transaction agree
PagesAgree ==
    txns[PgTxn].txn # None =>
        \A d \in Dbs : ContentOf(sess.pgs[txns[PgTxn].txn], d)
                           = view[txns[PgTxn].txn][d]

(* ----- C6: a reference outlives writes to another collection ----------- *)
\* C6: a reference obtained through the ReadHalf from collection A, while the
\* WriteHalf has since written only the other collection B (puts and deletes,
\* with or without reuse of pages freed earlier), still points into a page of
\* A and still denotes the bytes it denoted when it was obtained; this holds
\* also when pages of A were written before the split.
C6_RefStableUnderWritesToOtherDb ==
    (sess.ref.held /\ ~sess.ref.same) =>
        /\ sess.ref.a \in sess.pgs[sess.ref.h].live
        /\ Deref(sess.ref) = sess.ref.cell

\* the reference points into a page of A written before it was taken, B was
\* then put through the WriteHalf and took a page from the loose pool
C6_Witness ==
    /\ sess.ref.held /\ ~sess.ref.same /\ sess.ref.reuse
    /\ sess.ref.a \in sess.pgs[sess.ref.h].dirty
    /\ halves[PgTxn].w
    /\ view[halves[PgTxn].wtxn]["B"] # {}
    /\ op = Call(PgTxn, "write", TRUE)

C9_CleanRefKeepsOldBytes ==
    /\ (sess.ref.held /\ sess.ref.a \notin sess.pgs[sess.ref.h].dirty)
           => Deref(sess.ref) = sess.ref.cell
    /\ halves[PgTxn].w =>
           \A d \in Dbs : \A k \in PgKeys :
               PageGet(sess.pgs[halves[PgTxn].wtxn], d, k)
                   = GetContent(view[halves[PgTxn].wtxn][d], k)

\* the key of the reference was overwritten through the WriteHalf: the
\* reference reads the old value, a get reads the new one
C9_Witness ==
    /\ sess.ref.held /\ halves[PgTxn].w
    /\ sess.ref.a \notin sess.pgs[sess.ref.h].dirty
    /\ op = Call(PgTxn, "write", TRUE)
    /\ LET now == PageGet(sess.pgs[halves[PgTxn].wtxn], sess.ref.db,
                          sess.ref.cell.k)
       IN now # NoVal /\ now # Deref(sess.ref).v

(* ============================ iterators ================================ *)
\* A cursor of the transaction that writes stays on its key when the value
\* of the key is overwritten (a collection without duplicates), and is left
\* after the place of its entry when the entry is deleted.
MdbTrack(c, cs) ==
    IF cs.st = "at" /\ HasKey(c, cs.e.k)
    THEN [cs EXCEPT !.e.v = GetContent(c, cs.e.k)]
    ELSE cs

\* Database::iter(&txn): RoCursor::new on the handle of txn, then RoIter::new
DatabaseIter(t, via, db) ==
    /\ ~it.alive
    /\ CanRef(t, via)
    /\ IsReadTxn(ViewKind(t, via))
    /\ TxnPtr(t, via) # None
    /\ it' = [alive |-> TRUE, t |-> t, via |-> via, h |-> TxnPtr(t, via),
              db |-> db, im |-> DefaultMoveOperation, move_on_first |-> TRUE,
              cursor |-> Uninit, snap |-> view[TxnPtr(t, via)][db],
              seen |-> <<>>, done |-> FALSE]
    /\ op' = Call(t, via, FALSE)
    /\ UNCHANGED <<txns, halves, eng, store, view, cur, wlog>>

\* a call of RoIter::next on the iterator the program holds
IterNext ==
    /\ it.alive
    /\ LET c == view[it.h][it.db]
           r == RoIterNext(c, [it EXCEPT !.cursor = MdbTrack(c, @)])
       IN it' = [r.it EXCEPT
                    !.seen = IF r.item.tag = "Some"
                             THEN Append(@, r.item.e) ELSE @,
                    !.done = r.item.tag = "None"]
    /\ op' = Call(it.t, it.via, FALSE)
    /\ UNCHANGED <<txns, halves, eng, store, view, cur, wlog>>

\* the iterator goes out of scope: impl Drop for RoCursor
DropIter ==
    /\ it.alive
    /\ it' = NoIter
    /\ op' = Call(it.t, it.via, FALSE)
    /\ UNCHANGED <<txns, halves, eng, store, view, cur, wlog>>

(* ================= the copy loop of the split example ================== *)
\* cross_db_split_iter_and_put: collection A is iterated through the
\* ReadHalf and every pair it yields is put into collection B through the
\* WriteHalf before the next call of next(); then the halves are dropped and
\* the transaction commits.  copy.pc is the position in that program.
CopyTxn == 1

\* A holds any committed content; B was created empty
InitCopy ==
    \E a0 \in ContentsOver(Keys) :
        LET c0 == [d \in Dbs |-> IF d = "A" THEN a0 ELSE {}]
        IN /\ CoreInit(c0)
           /\ sess = NoSess
           /\ it = NoIter
           /\ copy = [pc |-> "begin", orig |-> c0]
           /\ rg = NoRange

CopyAt(pc) == copy.pc = pc

CopyGoto(pc) == copy' = [copy EXCEPT !.pc = pc]

CopyBegin ==
    /\ CopyAt("begin") /\ RwTxnNew(CopyTxn) /\ CopyGoto("split")
    /\ UNCHANGED <<sess, it, rg>>

CopySplit ==
    /\ CopyAt("split") /\ Split(CopyTxn) /\ CopyGoto("iter")
    /\ UNCHANGED <<sess, it, rg>>

CopyIter ==
    /\ CopyAt("iter") /\ DatabaseIter(CopyTxn, "read", "A") /\ CopyGoto("next")
    /\ UNCHANGED <<sess, rg>>

\* for item in iter: the loop ends at the first None
CopyNext ==
    /\ CopyAt("next") /\ IterNext
    /\ CopyGoto(IF it'.done THEN "enditer" ELSE "put")
    /\ UNCHANGED <<sess, rg>>

\* dst.put(&mut write, k, v) of the pair just yielded
CopyPut ==
    /\ CopyAt("put")
    /\ LET e == it.seen[Len(it.seen)]
       IN Put(CopyTxn, "write", "B", e.k, e.v)
    /\ CopyGoto("next")
    /\ UNCHANGED <<sess, it, rg>>

CopyEndIter ==
    /\ CopyAt("enditer") /\ DropIter /\ CopyGoto("endblock")
    /\ UNCHANGED <<sess, rg>>

\* the block ends: both halves go out of scope
CopyDropHalf ==
    /\ CopyAt("endblock")
    /\ DropReadHalf(CopyTxn) \/ DropWriteHalf(CopyTxn)
    /\ CopyGoto(IF halves'[CopyTxn].r \/ halves'[CopyTxn].w
                THEN "endblock" ELSE "commit")
    /\ UNCHANGED <<sess, it, rg>>

CopyCommit ==
    /\ CopyAt("commit") /\ Commit(CopyTxn, "ok") /\ CopyGoto("done")
    /\ UNCHANGED <<sess, it, rg>>

CopyNextStep ==
    \/ CopyBegin
    \/ CopySplit
    \/ CopyIter
    \/ CopyNext
    \/ CopyPut
    \/ CopyEndIter
    \/ CopyDropHalf
    \/ CopyCommit

SpecCopy == InitCopy /\ [][CopyNextStep]_vars

\* the items of a sequence are in strictly increasing order of the entries
Increasing(q) == \A i, j \in 1..Len(q) : i < j => EntryLess(q[i], q[j])

(* ----- C5: the copy visits each entry once and fills B ----------------- *)
\* C5: whatever the committed content of A (N entries), with B created empty,
\* the loop's iterator yields entries of A in increasing order and no entry
\* twice; when it reports the end it has yielded exactly the N entries of A;
\* between two calls of next() B holds exactly the pairs yielded so far; and
\* once the transaction has committed, B holds exactly the N pairs of A and
\* A is unchanged.
C5_CopyVisitsEachEntryOnce ==
    LET a0 == copy.orig["A"]
        seen == {it.seen[i] : i \in 1..Len(it.seen)}
    IN /\ it.alive => /\ Increasing(it.seen)
                      /\ seen \subseteq a0
                      /\ view[it.h]["A"] = a0
       /\ (it.alive /\ CopyAt("next")) => view[it.h]["B"] = seen
       /\ (it.alive /\ it.done) => /\ seen = a0
                                   /\ Len(it.seen) = Cardinality(a0)
       /\ CopyAt("done") => store["B"] = a0 /\ store["A"] = a0

\* the loop has copied a collection of at least three entries, with keys of
\* both lengths, and committed
C5_Witness ==
    /\ CopyAt("done")
    /\ txns[CopyTxn].ended = "commit"
    /\ Cardinality(copy.orig["A"]) >= 3
    /\ \E e, f \in copy.orig["A"] : Len(e.k) < Len(f.k)
    /\ store["B"] = copy.orig["A"]

(* ========== iteration and writes in one collection, split ============== *)
\* same_db_iter_with_concurrent_inserts: collection A is iterated through
\* the ReadHalf with a `while let Some(..) = iter.next()` loop while the
\* WriteHalf puts into and deletes from the same collection.
ItTxn == 1

ItKeys == {k \in Keys : Len(k) = 1 \/ k = <<0, 0>>}

\* the committed entries of A all have one value
InitIter ==
    \E a0 \in {c \in ContentsOver(ItKeys) : \A e \in c : e.v = MaxVal} :
        /\ CoreInit([d \in Dbs |-> IF d = "A" THEN a0 ELSE {}])
        /\ sess = NoSess
        /\ it = NoIter
        /\ copy = NoCopy
        /\ rg = NoRange

\* the body of the loop runs after a call of next() that yielded an item
InLoop == it.alive /\ ~it.done /\ it.seen # <<>>

ItNext ==
    \/ RwTxnNew(ItTxn) /\ UNCHANGED auxVars
    \/ Split(ItTxn) /\ UNCHANGED auxVars
    \/ DatabaseIter(ItTxn, "read", "A") /\ UNCHANGED <<sess, copy, rg>>
    \/ ~it.done /\ IterNext /\ UNCHANGED <<sess, copy, rg>>
    \/ \E k \in ItKeys, v \in Vals :
           InLoop /\ Put(ItTxn, "write", "A", k, v) /\ UNCHANGED auxVars
    \/ \E k \in ItKeys :
           InLoop /\ Delete(ItTxn, "write", "A", k) /\ UNCHANGED auxVars
    \/ DropIter /\ UNCHANGED <<sess, copy, rg>>
    \/ DropReadHalf(ItTxn) /\ UNCHANGED auxVars
    \/ DropWriteHalf(ItTxn) /\ UNCHANGED auxVars
    \/ Commit(ItTxn, "ok") /\ UNCHANGED auxVars

SpecIter == InitIter /\ [][ItNext]_vars

(* ----- C8: the iterator reads what the WriteHalf has written ----------- *)
\* C8: every call of next() on an iterator made through the ReadHalf moves
\* in the collection as the transaction has written it by then: it yields
\* the entry of the least key beyond the last key yielded (the first entry at
\* the start), an entry put through the WriteHalf after the iterator was made
\* included, and reports the end only when the collection as written holds
\* no key beyond it.
C8_IterSeesWritesOfWriteHalf ==
    [][(it.alive /\ it'.alive /\ op'.via = "read") =>
         LET c == view[txns[ItTxn].txn][it.db]
             n == Len(it.seen)
             beyond == IF n = 0 THEN c
                       ELSE {f \in c : KeyLess(it.seen[n].k, f.k)}
         IN IF beyond = {}
            THEN it'.seen = it.seen /\ it'.done
            ELSE it'.seen = Append(it.seen, MinEntry(beyond)) /\ ~it'.done]_vars

\* the loop has ended, it yielded a key that was put after the iterator was
\* made, and the number of items differs from the number of entries the
\* collection held then
C8_Witness ==
    /\ it.alive /\ it.done /\ it.via = "read"
    /\ \E i \in 1..Len(it.seen) : ~HasKey(it.snap, it.seen[i].k)
    /\ Len(it.seen) # Cardinality(it.snap)

\* the match of last() on the entry the cursor is on and the entry the
\* cursor was then moved to: the latter when its key is another one
LastMatch(current, end) ==
    LET res == IF current.rc \notin {"ok", "notfound"}
               THEN Fail(end.cs, current.rc)
               ELSE IF end.rc \notin {"ok", "notfound"} THEN end
               ELSE IF current.rc = "ok" /\ end.rc = "ok"
                       /\ current.e.k # end.e.k
               THEN end
               ELSE Fail(end.cs, "notfound")
    IN [res EXCEPT !.calls = current.calls \o end.calls,
                   !.ops = current.ops \o end.ops]

(* ============================== range.rs =============================== *)
\* move_on_range_end
MoveOnRangeEnd(c, cs, end_bound) ==
    IF end_bound.t = "Unbounded" THEN MoveOnLast(c, cs, "NoDup")
    ELSE LET r == MoveOnKeyGreaterThanOrEqualTo(c, cs, end_bound.k)
         IN IF r.rc \notin {"ok", "notfound"} THEN r
            ELSE IF end_bound.t = "Included" /\ r.rc = "ok"
                    /\ r.e.k = end_bound.k
            THEN r
            ELSE Then(r, MoveOnPrev(c, r.cs, "NoDup"))

\* move_on_range_start
MoveOnRangeStart(c, cs, start_bound) ==
    IF start_bound.t = "Unbounded" THEN MoveOnFirst(c, cs, "NoDup")
    ELSE LET r == MoveOnKeyGreaterThanOrEqualTo(c, cs, start_bound.k)
         IN IF start_bound.t = "Excluded" /\ r.rc = "ok"
               /\ r.e.k = start_bound.k
            THEN Then(r, MoveOnNext(c, r.cs, "NoDup"))
            ELSE r

\* the check of a found key against the end bound, in RoRange::next
EndAllows(key, end_bound) ==
    CASE end_bound.t = "Included" -> KeyLeq(key, end_bound.k)
      [] end_bound.t = "Excluded" -> KeyLess(key, end_bound.k)
      [] OTHER -> TRUE

\* the check of a found key against the start bound, in RoRevRange::next
StartAllows(key, start_bound) ==
    CASE start_bound.t = "Included" -> KeyLeq(start_bound.k, key)
      [] start_bound.t = "Excluded" -> KeyLess(start_bound.k, key)
      [] OTHER -> TRUE

RoRangeNextRetry(r) ==
    LET res == IF r.move_on_start
               THEN MoveOnRangeStart(r.c, r.cursor, r.start_bound)
               ELSE MoveOnNext(r.c, r.cursor, r.im)
    IN [r EXCEPT !.move_on_start = @ /\ res.rc # "ok",
                 !.cursor = res.cs, !.ops = res.ops,
                 !.out = ItemOf(res, EndAllows(res.e.k, r.end_bound))]

\* a next() that decodes the entry before it checks the end bound
RoRangeNextDecodingFirst(r) ==
    LET res == IF r.move_on_start
               THEN MoveOnRangeStart(r.c, r.cursor, r.start_bound)
               ELSE MoveOnNext(r.c, r.cursor, r.im)
        item == Decode(ItemOf(res, TRUE), r.kc, r.dc)
    IN [r EXCEPT !.move_on_start = FALSE,
                 !.cursor = res.cs, !.ops = res.ops,
                 !.out = IF item.tag = "Some"
                         THEN ItemOf(res, EndAllows(res.e.k, r.end_bound))
                         ELSE item]

\* RoRange::next: the iterator afterwards, with the item in out
RoRangeNext(r) ==
    LET res == IF r.move_on_start
               THEN MoveOnRangeStart(r.c, r.cursor, r.start_bound)
               ELSE MoveOnNext(r.c, r.cursor, r.im)
    IN [r EXCEPT !.move_on_start = FALSE,
                 !.cursor = res.cs, !.ops = res.ops,
                 !.out = Decode(ItemOf(res, EndAllows(res.e.k, r.end_bound)),
                               r.kc, r.dc)]

\* RoRevRange::next
RoRevRangeNext(r) ==
    LET res == IF r.move_on_end
               THEN MoveOnRangeEnd(r.c, r.cursor, r.end_bound)
               ELSE MoveOnPrev(r.c, r.cursor, r.im)
    IN [r EXCEPT !.move_on_end = FALSE,
                 !.cursor = res.cs, !.ops = res.ops,
                 !.out = Decode(ItemOf(res, StartAllows(res.e.k, r.start_bound)),
                               r.kc, r.dc)]

(* ------------------------------ prefix.rs ------------------------------ *)
\* LexicographicComparator of DefaultComparator: min_elem, max_elem
MinElem == 0

MaxElem == MaxByte

advance_prefix_no_reset(bytes) ==
    LET I == {i \in 1..Len(bytes) : bytes[i] # MaxElem}
        idx == CHOOSE i \in I : \A j \in I : j <= i
    IN IF I = {} THEN [ok |-> FALSE, bytes |-> bytes]
       ELSE [ok |-> TRUE, bytes |-> [bytes EXCEPT ![idx] = @ + 1]]

\* advance_prefix: the successor of bytes among the sequences of its length;
\* ok is false, and bytes unchanged, when every byte is max_elem
advance_prefix(bytes) ==
    LET I == {i \in 1..Len(bytes) : bytes[i] # MaxElem}
        idx == CHOOSE i \in I : \A j \in I : j <= i
    IN IF I = {} THEN [ok |-> FALSE, bytes |-> bytes]
       ELSE [ok |-> TRUE,
             bytes |-> [i \in 1..Len(bytes) |->
                          IF i < idx THEN bytes[i]
                          ELSE IF i = idx THEN bytes[i] + 1 ELSE MinElem]]

\* retreat_prefix: the predecessor of bytes among the sequences of its length
retreat_prefix(bytes) ==
    LET I == {i \in 1..Len(bytes) : bytes[i] # MinElem}
        idx == CHOOSE i \in I : \A j \in I : j <= i
    IN IF I = {} THEN [ok |-> FALSE, bytes |-> bytes]
       ELSE [ok |-> TRUE,
             bytes |-> [i \in 1..Len(bytes) |->
                          IF i < idx THEN bytes[i]
                          ELSE IF i = idx THEN bytes[i] - 1 ELSE MaxElem]]

move_on_prefix_end_no_retreat(c, cs, prefix) ==
    LET adv == advance_prefix(prefix)
        seek == MoveOnKeyGreaterThanOrEqualTo(c, cs, adv.bytes)
    IN IF adv.ok
       THEN [res |-> IF seek.rc \in {"ok", "notfound"}
                     THEN Then(seek, MoveOnPrev(c, seek.cs, "NoDup"))
                     ELSE seek,
             prefix |-> adv.bytes]
       ELSE [res |-> MoveOnLast(c, cs, "NoDup"), prefix |-> prefix]

\* move_on_prefix_end: the move's result, and the prefix as it is left
move_on_prefix_end(c, cs, prefix) ==
    LET adv == advance_prefix(prefix)
        seek == MoveOnKeyGreaterThanOrEqualTo(c, cs, adv.bytes)
    IN IF adv.ok
       THEN [res |-> IF seek.rc \in {"ok", "notfound"}
                     THEN Then(seek, MoveOnPrev(c, seek.cs, "NoDup"))
                     ELSE seek,
             prefix |-> retreat_prefix(adv.bytes).bytes]
       ELSE [res |-> MoveOnLast(c, cs, "NoDup"), prefix |-> prefix]

\* key.starts_with(prefix)
starts_with(key, prefix) ==
    Len(prefix) <= Len(key) /\ SubSeq(key, 1, Len(prefix)) = prefix

\* RoPrefix::next: the iterator afterwards, with the item in out
RoPrefixNext(r) ==
    LET res == IF r.move_on_first
               THEN MoveOnKeyGreaterThanOrEqualTo(r.c, r.cursor, r.prefix)
               ELSE MoveOnNext(r.c, r.cursor, r.im)
    IN [r EXCEPT !.move_on_first = FALSE,
                 !.cursor = res.cs, !.ops = res.ops,
                 !.out = Decode(ItemOf(res, starts_with(res.e.k, r.prefix)),
                               r.kc, r.dc)]

\* RoRevPrefix::next
RoRevPrefixNext(r) ==
    LET end == move_on_prefix_end(r.c, r.cursor, r.prefix)
        res == IF r.move_on_last THEN end.res
               ELSE MoveOnPrev(r.c, r.cursor, r.im)
        prefix == IF r.move_on_last THEN end.prefix ELSE r.prefix
    IN [r EXCEPT !.move_on_last = FALSE,
                 !.cursor = res.cs, !.ops = res.ops,
                 !.prefix = prefix,
                 !.out = Decode(ItemOf(res, starts_with(res.e.k, prefix)),
                               r.kc, r.dc)]

\* RoPrefix::last: the iterator as last() leaves it, with the item in out
RoPrefixLast(r) ==
    LET current == RoCursorCurrent(r.c, r.cursor)
        end == move_on_prefix_end(r.c, r.cursor, r.prefix)
        res == IF r.move_on_first THEN end.res
               ELSE LastMatch(current, end.res)
    IN [r EXCEPT !.cursor = res.cs, !.ops = res.ops,
                 !.prefix = end.prefix,
                 !.out = Decode(ItemOf(res, starts_with(res.e.k, end.prefix)),
                               r.kc, r.dc)]

\* RoRevPrefix::last
RoRevPrefixLast(r) ==
    LET current == RoCursorCurrent(r.c, r.cursor)
        start == MoveOnKeyGreaterThanOrEqualTo(r.c, r.cursor, r.prefix)
        res == IF r.move_on_last THEN start ELSE LastMatch(current, start)
    IN [r EXCEPT !.cursor = res.cs, !.ops = res.ops,
                 !.out = Decode(ItemOf(res, starts_with(res.e.k, r.prefix)),
                               r.kc, r.dc)]

\* RoIter::next on the iterator r, with the item in out
RoIterStep(r) ==
    LET n == RoIterNext(r.c, r)
    IN [n.it EXCEPT !.out = Decode(n.item, r.kc, r.dc), !.ops = n.ops]

\* RoRevIter::next: the iterator afterwards, with the item in out
RoRevIterNext(r) ==
    LET res == IF r.move_on_last
               THEN MoveOnLast(r.c, r.cursor, r.im)
               ELSE MoveOnPrev(r.c, r.cursor, r.im)
    IN [r EXCEPT !.move_on_last = FALSE,
                 !.cursor = res.cs, !.ops = res.ops,
                 !.out = Decode(ItemOf(res, TRUE),
                               r.kc, r.dc)]

\* Iterator::last as the standard library provides it, and what a for loop
\* sees: the items of next() up to its first None
StepOf(which, r) ==
    CASE which = "RoRange" -> RoRangeNext(r)
      [] which = "RoPrefix" -> RoPrefixNext(r)
      [] which = "RoIter" -> RoIterStep(r)
      [] which = "RoRevIter" -> RoRevIterNext(r)
      [] which = "RoRevRange" -> RoRevRangeNext(r)
      [] which = "RoRevPrefix" -> RoRevPrefixNext(r)

RECURSIVE Drain(_, _)
Drain(which, r) ==
    LET s == StepOf(which, r)
    IN IF s.out.tag = "None" THEN <<>> ELSE <<s.out>> \o Drain(which, s)

\* the last item of a drain, None when it has no item
FinalItem(q) == IF q = <<>> THEN NoneItem ELSE q[Len(q)]

RoRangeLastByDrain(r) ==
    LET q == Drain("RoRange", r)
    IN [r EXCEPT !.out = FinalItem(q),
                 !.ops = [i \in 1..(Len(q) + 1) |->
                            IF i = 1 /\ r.move_on_start THEN "MDB_SET_RANGE"
                            ELSE NextFlag(r.im)]]

\* RoRange::last: the iterator as last() leaves it, with the item in out
RoRangeLast(r) ==
    LET current == RoCursorCurrent(r.c, r.cursor)
        end == MoveOnRangeEnd(r.c, r.cursor, r.end_bound)
        res == IF r.move_on_start THEN end ELSE LastMatch(current, end)
    IN [r EXCEPT !.cursor = res.cs, !.ops = res.ops,
                 !.out = Decode(ItemOf(res, StartAllows(res.e.k, r.start_bound)),
                               r.kc, r.dc)]

\* RoRevRange::last
RoRevRangeLast(r) ==
    LET current == RoCursorCurrent(r.c, r.cursor)
        start == MoveOnRangeStart(r.c, r.cursor, r.start_bound)
        res == IF r.move_on_end THEN start ELSE LastMatch(current, start)
    IN [r EXCEPT !.cursor = res.cs, !.ops = res.ops,
                 !.out = Decode(ItemOf(res, EndAllows(res.e.k, r.end_bound)),
                               r.kc, r.dc)]

\* RoIter::last: the iterator as last() leaves it, with the item in out
RoIterLast(r) ==
    LET current == RoCursorCurrent(r.c, r.cursor)
        end == MoveOnLast(r.c, r.cursor, r.im)
        res == IF r.move_on_first THEN end ELSE LastMatch(current, end)
    IN [r EXCEPT !.cursor = res.cs, !.ops = res.ops,
                 !.out = Decode(ItemOf(res, TRUE), r.kc, r.dc)]

\* RoRevIter::last
RoRevIterLast(r) ==
    LET current == RoCursorCurrent(r.c, r.cursor)
        start == MoveOnFirst(r.c, r.cursor, r.im)
        res == IF r.move_on_last THEN start ELSE LastMatch(current, start)
    IN [r EXCEPT !.cursor = res.cs, !.ops = res.ops,
                 !.out = Decode(ItemOf(res, TRUE), r.kc, r.dc)]

(* ----------------- range iterators over a fixed content ---------------- *)
\* the keys of the entries; the bounds are any keys, the empty one included
RgKeys == {k \in Keys : Len(k) = 1 \/ k = <<0, 1>>}

BoundKeys == Keys \cup {<<>>}

Bounds == {Unbounded} \cup {Included(k) : k \in BoundKeys}
                      \cup {Excluded(k) : k \in BoundKeys}

\* IterationMethod of a range: MoveThroughDuplicateValues or MoveBetweenKeys
RangeMoveOps == {"Any", "NoDup"}

\* Database::range and Database::rev_range over any entries (duplicates of a
\* key included), with any bounds
InitRange ==
    /\ CoreInit(EmptyContent)
    /\ sess = NoSess
    /\ it = NoIter
    /\ copy = NoCopy
    /\ \E c \in SUBSET [k : RgKeys, v : Vals], kind \in {"fwd", "rev"},
          sb \in Bounds, eb \in Bounds, im \in RangeMoveOps :
           rg = [NoRange EXCEPT !.kind = kind, !.c = c, !.start_bound = sb,
                                !.end_bound = eb, !.im = im]

\* what a caller has seen of the iterator: whether an earlier call returned
\* None or an error, and the items of next() up to its first None
Noted(old, new) ==
    [new EXCEPT !.after = old.after \/ old.out.tag = "None",
                !.erred = old.erred \/ old.out.tag = "Err",
                !.seq = IF old.after \/ old.out.tag = "None"
                           \/ new.out.tag = "None"
                        THEN old.seq ELSE Append(old.seq, new.out)]

RangeNext ==
    /\ rg.kind = "fwd"
    /\ rg' = Noted(rg, RoRangeNext(rg))
    /\ UNCHANGED <<coreVars, sess, it, copy>>

RevRangeNext ==
    /\ rg.kind = "rev"
    /\ rg' = Noted(rg, RoRevRangeNext(rg))
    /\ UNCHANGED <<coreVars, sess, it, copy>>

\* last() consumes the iterator
RangeLast ==
    /\ rg.kind = "fwd"
    /\ rg' = [Noted(rg, RoRangeLast(rg)) EXCEPT !.kind = "fwd.last",
                                                !.seq = rg.seq]
    /\ UNCHANGED <<coreVars, sess, it, copy>>

RevRangeLast ==
    /\ rg.kind = "rev"
    /\ rg' = [Noted(rg, RoRevRangeLast(rg)) EXCEPT !.kind = "rev.last",
                                                   !.seq = rg.seq]
    /\ UNCHANGED <<coreVars, sess, it, copy>>

RgNext == RangeNext \/ RevRangeNext \/ RangeLast \/ RevRangeLast

SpecRange == InitRange /\ [][RgNext]_vars

\* key lies within the two bounds
InRange(key, sb, eb) ==
    /\ sb.t = "Included" => KeyLeq(sb.k, key)
    /\ sb.t = "Excluded" => KeyLess(sb.k, key)
    /\ eb.t = "Included" => KeyLeq(key, eb.k)
    /\ eb.t = "Excluded" => KeyLess(key, eb.k)

(* ----- C10: a range iterator stays within its bounds ------------------- *)
\* C10: no item returned by next() of a forward or reverse range iterator
\* has a key outside the start and end bounds, however many times next() is
\* called, also after it reported the end or after the first seek found
\* nothing.
C10_AsClaimed ==
    rg.out.tag = "Some" => InRange(rg.out.e.k, rg.start_bound, rg.end_bound)

\* what holds: the items are within the bounds as long as no call of next()
\* has returned an error
RangeWithinBoundsUnlessErred ==
    (rg.out.tag = "Some" /\ ~rg.erred)
        => InRange(rg.out.e.k, rg.start_bound, rg.end_bound)

\* a forward iterator never leaves its bounds, errors or not
FwdRangeWithinBounds ==
    (rg.kind = "fwd" /\ rg.out.tag = "Some")
        => InRange(rg.out.e.k, rg.start_bound, rg.end_bound)

(* ----- C11: last() of a range against the forward drain ---------------- *)
\* the range iterator of rg as Database::range made it
FreshRange == [rg EXCEPT !.kind = "fwd", !.cursor = Uninit,
                         !.move_on_start = TRUE, !.out = NoRange.out,
                         !.after = FALSE, !.erred = FALSE, !.seq = <<>>]

\* the bounds of rg hold no empty key (a key the engine refuses to seek)
SeekableBounds ==
    /\ rg.start_bound.k # <<>> \/ rg.start_bound.t = "Unbounded"
    /\ rg.end_bound.k # <<>> \/ rg.end_bound.t = "Unbounded"

\* C11: last() of a range iterator that was not advanced returns the final
\* item of a full forward drain of the same range (nothing when the drain
\* is empty), for all bounds, both iteration methods and every content.
\* Stated on the bounds the engine seeks without error, where no call
\* returns an error.
C11_AsClaimed ==
    (rg.kind = "fwd.last" /\ rg.move_on_start /\ SeekableBounds)
        => rg.out = FinalItem(Drain("RoRange", FreshRange))

\* no key of the content has two values
NoDuplicates(c) == \A e \in c, f \in c : e.k = f.k => e = f

\* what holds: in a collection without duplicates last() is the final item
\* of the drain
RangeLastIsFinalWithoutDuplicates ==
    (/\ rg.kind = "fwd.last" /\ rg.move_on_start /\ SeekableBounds
     /\ NoDuplicates(rg.c))
        => rg.out = FinalItem(Drain("RoRange", FreshRange))

(* ---------------- prefix iterators over a fixed content ---------------- *)
\* the keys of the entries
PfKeys == {k \in Keys : Len(k) = 1 \/ k[2] = MaxByte}

\* Database::prefix_iter and Database::rev_prefix_iter over any entries
\* (duplicates of a key included), with any prefix, the empty one included
InitPrefix ==
    /\ CoreInit(EmptyContent)
    /\ sess = NoSess
    /\ it = NoIter
    /\ copy = NoCopy
    /\ \E c \in SUBSET [k : PfKeys, v : Vals], prefix \in BoundKeys,
          im \in RangeMoveOps, kind \in {"prefix", "rev_prefix"} :
           rg = [NoRange EXCEPT !.kind = kind, !.c = c,
                                !.prefix = prefix, !.im = im]

PrefixNext ==
    /\ rg.kind = "prefix"
    /\ rg' = Noted(rg, RoPrefixNext(rg))
    /\ UNCHANGED <<coreVars, sess, it, copy>>

\* last() consumes the iterator
PrefixLast ==
    /\ rg.kind = "prefix"
    /\ rg' = [Noted(rg, RoPrefixLast(rg)) EXCEPT !.kind = "prefix.last",
                                                 !.seq = rg.seq]
    /\ UNCHANGED <<coreVars, sess, it, copy>>

RevPrefixNext ==
    /\ rg.kind = "rev_prefix"
    /\ rg' = Noted(rg, RoRevPrefixNext(rg))
    /\ UNCHANGED <<coreVars, sess, it, copy>>

RevPrefixLast ==
    /\ rg.kind = "rev_prefix"
    /\ rg' = [Noted(rg, RoRevPrefixLast(rg)) EXCEPT !.kind = "rev_prefix.last",
                                                    !.seq = rg.seq]
    /\ UNCHANGED <<coreVars, sess, it, copy>>

PfNext == PrefixNext \/ PrefixLast \/ RevPrefixNext \/ RevPrefixLast

SpecPrefix == InitPrefix /\ [][PfNext]_vars

(* ----- C12: last() of a prefix iterator against the forward drain ------ *)
\* the prefix iterator of rg as Database::prefix_iter made it
FreshPrefix == [rg EXCEPT !.kind = "prefix", !.cursor = Uninit,
                          !.move_on_first = TRUE, !.out = NoRange.out,
                          !.after = FALSE, !.erred = FALSE, !.seq = <<>>]

\* C12: last() of a prefix iterator that was not advanced returns the final
\* item of a full forward drain of the same prefix iteration (nothing when
\* no key starts with the prefix), for every prefix, those ending in the
\* greatest byte included, and every content. Stated on the prefixes that
\* are not empty, which the engine seeks without error, and for the
\* default iteration method.
C12_AsClaimed ==
    (/\ rg.kind = "prefix.last" /\ rg.move_on_first
     /\ rg.prefix # <<>> /\ rg.im = DefaultMoveOperation)
        => rg.out = FinalItem(Drain("RoPrefix", FreshPrefix))

\* what holds: last() is the final item of the drain when the prefix is
\* not empty and its last byte is not the greatest one, unless all are,
\* and when every duplicate is visited or there is none
PrefixLastIsFinal ==
    (/\ rg.kind = "prefix.last" /\ rg.move_on_first
     /\ rg.prefix # <<>>
     /\ \/ rg.prefix[Len(rg.prefix)] # MaxElem
        \/ \A i \in 1..Len(rg.prefix) : rg.prefix[i] = MaxElem
     /\ rg.im = "Any" \/ NoDuplicates(rg.c))
        => rg.out = FinalItem(Drain("RoPrefix", FreshPrefix))

\* with the empty prefix last() is the last entry of the collection
EmptyPrefixLastIsLastEntry ==
    (rg.kind = "prefix.last" /\ rg.move_on_first /\ rg.prefix = <<>>)
        => rg.out = ItemOf(MdbLast(rg.c), TRUE)

(* -------------- puts, then an iteration of the collection -------------- *)
\* a collection, with or without MDB_DUPSORT, is filled by puts; then
\* Database::iter or Database::rev_iter walks it
InitWalk ==
    /\ CoreInit(EmptyContent)
    /\ sess = NoSess
    /\ it = NoIter
    /\ copy = NoCopy
    /\ \E ds \in BOOLEAN : rg = [NoRange EXCEPT !.kind = "puts", !.ds = ds]

WalkPut ==
    /\ rg.kind = "puts"
    /\ \E k \in RgKeys, v \in Vals :
           rg' = [rg EXCEPT !.c = PutContent(rg.c, rg.ds, k, v)]
    /\ UNCHANGED <<coreVars, sess, it, copy>>

\* Database::iter / Database::rev_iter, then move_between_keys or not
WalkIter ==
    /\ rg.kind = "puts"
    /\ \E kind \in {"iter", "rev_iter"}, im \in RangeMoveOps :
           rg' = [rg EXCEPT !.kind = kind, !.im = im]
    /\ UNCHANGED <<coreVars, sess, it, copy>>

WalkNext ==
    /\ rg.kind = "iter"
    /\ rg' = Noted(rg, RoIterStep(rg))
    /\ UNCHANGED <<coreVars, sess, it, copy>>

WalkRevNext ==
    /\ rg.kind = "rev_iter"
    /\ rg' = Noted(rg, RoRevIterNext(rg))
    /\ UNCHANGED <<coreVars, sess, it, copy>>

\* last() consumes the iterator
WalkLast ==
    /\ rg.kind = "iter"
    /\ rg' = [Noted(rg, RoIterLast(rg)) EXCEPT !.kind = "iter.last",
                                               !.seq = rg.seq]
    /\ UNCHANGED <<coreVars, sess, it, copy>>

WalkRevLast ==
    /\ rg.kind = "rev_iter"
    /\ rg' = [Noted(rg, RoRevIterLast(rg)) EXCEPT !.kind = "rev_iter.last",
                                                  !.seq = rg.seq]
    /\ UNCHANGED <<coreVars, sess, it, copy>>

WkNext ==
    \/ WalkPut \/ WalkIter \/ WalkNext \/ WalkRevNext
    \/ WalkLast \/ WalkRevLast

SpecWalk == InitWalk /\ [][WkNext]_vars

\* the first None of next() has just been returned: seq is the whole drain
Drained == rg.out.tag = "None" /\ ~rg.after

Reverse(q) == [i \in 1..Len(q) |-> q[Len(q) + 1 - i]]

\* the iterator of rg as Database::iter made it
FreshIter == [rg EXCEPT !.kind = "iter", !.cursor = Uninit,
                        !.move_on_first = TRUE, !.out = NoRange.out,
                        !.after = FALSE, !.erred = FALSE, !.seq = <<>>]

\* the iterator of rg as Database::rev_iter made it
FreshRevIter == [rg EXCEPT !.kind = "rev_iter", !.cursor = Uninit,
                           !.move_on_last = TRUE, !.out = NoRange.out,
                           !.after = FALSE, !.erred = FALSE, !.seq = <<>>]

(* ----- C13: reverse iteration is the reverse of forward iteration ------ *)
\* C13: for every content, both iteration methods and a start bound, an
\* end bound, both or none, a drained reverse iterator has yielded the
\* reverse of what the forward iterator over the same bounds yields.
\* Stated for the ranges (an unbounded one stands for no bound) with bounds
\* the engine seeks without error.
C13_AsClaimed ==
    (rg.kind = "rev" /\ Drained /\ SeekableBounds)
        => rg.seq = Reverse(Drain("RoRange", FreshRange))

\* what holds: in a collection without duplicates the reverse range yields
\* the reverse of the forward range
RevRangeIsReverseWithoutDuplicates ==
    (rg.kind = "rev" /\ Drained /\ SeekableBounds /\ NoDuplicates(rg.c))
        => rg.seq = Reverse(Drain("RoRange", FreshRange))

\* Database::rev_iter yields the reverse of Database::iter when every
\* duplicate is visited or there is none
RevIterIsReverseOfIter ==
    (rg.kind = "rev_iter" /\ Drained
     /\ (rg.im = "Any" \/ NoDuplicates(rg.c)))
        => rg.seq = Reverse(Drain("RoIter", FreshIter))

(* ----- C14: a full iteration through the duplicate values -------------- *)
\* the items of q are entries, in ascending order of key, then of value
Ascending(q) ==
    /\ \A i \in 1..Len(q) : q[i].tag = "Some"
    /\ \A i, j \in 1..Len(q) : i < j => EntryLess(q[i].e, q[j].e)

\* C14: after any puts, a forward iteration that visits every duplicate
\* yields, up to its end, every stored pair exactly once, the keys in
\* non-decreasing order and the values of one key adjacent and ascending.
C14_IterYieldsEveryPairInOrder ==
    (rg.kind = "iter" /\ rg.im = "Any" /\ Drained)
        => /\ Ascending(rg.seq)
           /\ {rg.seq[i].e : i \in 1..Len(rg.seq)} = rg.c

\* a drained iteration of two keys, one of them with two values
C14_Witness ==
    /\ rg.kind = "iter" /\ rg.im = "Any" /\ Drained
    /\ Len(rg.seq) = 3
    /\ rg.seq[1].e.k = rg.seq[2].e.k
    /\ rg.seq[2].e.k # rg.seq[3].e.k

(* ----- C15: a full iteration between the keys -------------------------- *)
\* C15: after any puts, a forward iteration that moves between the keys
\* yields, up to its end, every distinct key exactly once, in strictly
\* increasing order, each with the first (smallest) of its values.
C15_IterYieldsEveryKeyOnce ==
    (rg.kind = "iter" /\ rg.im = "NoDup" /\ Drained)
        => /\ \A i \in 1..Len(rg.seq) :
                 /\ rg.seq[i].tag = "Some"
                 /\ rg.seq[i].e.v = GetContent(rg.c, rg.seq[i].e.k)
           /\ \A i, j \in 1..Len(rg.seq) :
                 i < j => KeyLess(rg.seq[i].e.k, rg.seq[j].e.k)
           /\ {rg.seq[i].e.k : i \in 1..Len(rg.seq)} = {e.k : e \in rg.c}

\* a drained iteration between two keys that have two values each
C15_Witness ==
    /\ rg.kind = "iter" /\ rg.im = "NoDup" /\ Drained
    /\ Len(rg.seq) = 2
    /\ Cardinality(rg.c) = 4

(* ----- C16: what a forward range yields -------------------------------- *)
\* the drained forward range has yielded the entries within its bounds, in
\* ascending order, each once
FwdRangeYieldsInRange ==
    /\ Ascending(rg.seq)
    /\ {rg.seq[i].e : i \in 1..Len(rg.seq)}
         = {e \in rg.c : InRange(e.k, rg.start_bound, rg.end_bound)}

\* C16: a forward range iteration (every duplicate visited) yields exactly
\* the stored entries whose key satisfies both bounds, ascending and each
\* once: an Included bound's key when present, none of the keys outside,
\* and no value of the key of an Excluded start.
C16_AsClaimed ==
    (rg.kind = "fwd" /\ rg.im = "Any" /\ Drained) => FwdRangeYieldsInRange

\* what holds: the same, for a start bound whose key is not empty
FwdRangeYieldsInRangeFromSeekableStart ==
    (/\ rg.kind = "fwd" /\ rg.im = "Any" /\ Drained
     /\ rg.start_bound.k # <<>> \/ rg.start_bound.t = "Unbounded")
        => FwdRangeYieldsInRange

(* ----- C17: what a forward prefix iteration yields --------------------- *)
\* the drained prefix iteration has yielded the entries whose key starts
\* with the prefix, in ascending order, each once
PrefixYieldsMatching ==
    /\ Ascending(rg.seq)
    /\ {rg.seq[i].e : i \in 1..Len(rg.seq)}
         = {e \in rg.c : starts_with(e.k, rg.prefix)}

\* C17: a forward prefix iteration (every duplicate visited) yields exactly
\* the stored entries whose key starts with the prefix, ascending and each
\* once; with the empty prefix, all entries.
C17_AsClaimed ==
    (rg.kind = "prefix" /\ rg.im = "Any" /\ Drained) => PrefixYieldsMatching

\* what holds: the same, for a prefix that is not empty
PrefixYieldsMatchingUnlessEmpty ==
    (rg.kind = "prefix" /\ rg.im = "Any" /\ Drained /\ rg.prefix # <<>>)
        => PrefixYieldsMatching

\* with the empty prefix the first item is the error of the refused seek,
\* and the entries of the collection follow
EmptyPrefixYieldsErrorFirst ==
    (rg.kind = "prefix" /\ rg.im = "Any" /\ Drained /\ rg.prefix = <<>>)
        => /\ Len(rg.seq) = Cardinality(rg.c) + 1
           /\ rg.seq[1].tag = "Err"
           /\ Ascending(SubSeq(rg.seq, 2, Len(rg.seq)))

(* ------------------- the operations of one cursor ---------------------- *)
\* Ok(true), Ok(false) or Err of an operation that returns Result<bool>
BoolOf(r) ==
    [tag |-> IF r.rc = "ok" THEN "true"
             ELSE IF r.rc = "notfound" THEN "false" ELSE "Err",
     e |-> NoEntry]

\* a cursor opened by RoCursor::new (RwCursor::new) on any content
InitCursor ==
    /\ CoreInit(EmptyContent)
    /\ sess = NoSess
    /\ it = NoIter
    /\ copy = NoCopy
    /\ \E c \in SUBSET [k : RgKeys, v : Vals] :
           rg = [NoRange EXCEPT !.kind = "cursor", !.c = c]

\* the cursor after the operation `called`, with its result and the
\* statuses of the engine calls it made
Moved(called, mop, res, out) ==
    [rg EXCEPT !.cursor = res.cs, !.out = out, !.calls = res.calls,
               !.called = called, !.im = mop]

CursorCurrent ==
    /\ rg.kind = "cursor"
    /\ LET res == RoCursorCurrent(rg.c, rg.cursor)
       IN rg' = Moved("current", "Any", res, ItemOf(res, TRUE))
    /\ UNCHANGED <<coreVars, sess, it, copy>>

CursorMoveOnFirst ==
    /\ rg.kind = "cursor"
    /\ \E mop \in MoveOps :
           LET res == MoveOnFirst(rg.c, rg.cursor, mop)
           IN rg' = Moved("move_on_first", mop, res, ItemOf(res, TRUE))
    /\ UNCHANGED <<coreVars, sess, it, copy>>

CursorMoveOnLast ==
    /\ rg.kind = "cursor"
    /\ \E mop \in MoveOps :
           LET res == MoveOnLast(rg.c, rg.cursor, mop)
           IN rg' = Moved("move_on_last", mop, res, ItemOf(res, TRUE))
    /\ UNCHANGED <<coreVars, sess, it, copy>>

CursorMoveOnNext ==
    /\ rg.kind = "cursor"
    /\ \E mop \in MoveOps :
           LET res == MoveOnNext(rg.c, rg.cursor, mop)
           IN rg' = Moved("move_on_next", mop, res, ItemOf(res, TRUE))
    /\ UNCHANGED <<coreVars, sess, it, copy>>

CursorMoveOnPrev ==
    /\ rg.kind = "cursor"
    /\ \E mop \in MoveOps :
           LET res == MoveOnPrev(rg.c, rg.cursor, mop)
           IN rg' = Moved("move_on_prev", mop, res, ItemOf(res, TRUE))
    /\ UNCHANGED <<coreVars, sess, it, copy>>

CursorMoveOnKey ==
    /\ rg.kind = "cursor"
    /\ \E key \in BoundKeys :
           LET res == RoCursorMoveOnKey(rg.c, rg.cursor, key)
           IN rg' = Moved("move_on_key", "Any", res, BoolOf(res))
    /\ UNCHANGED <<coreVars, sess, it, copy>>

CursorMoveOnKeyGreaterThanOrEqualTo ==
    /\ rg.kind = "cursor"
    /\ \E key \in BoundKeys :
           LET res == MoveOnKeyGreaterThanOrEqualTo(rg.c, rg.cursor, key)
           IN rg' = Moved("move_on_key_greater_than_or_equal_to", "Any", res,
                          ItemOf(res, TRUE))
    /\ UNCHANGED <<coreVars, sess, it, copy>>

CursorDelCurrent ==
    /\ rg.kind = "cursor"
    /\ LET res == RwCursorDelCurrent(rg.c, rg.cursor)
       IN rg' = [Moved("del_current", "Any", res, BoolOf(res))
                    EXCEPT !.c = res.e]
    /\ UNCHANGED <<coreVars, sess, it, copy>>

CsNext ==
    \/ CursorCurrent
    \/ CursorMoveOnFirst
    \/ CursorMoveOnLast
    \/ CursorMoveOnNext
    \/ CursorMoveOnPrev
    \/ CursorMoveOnKey
    \/ CursorMoveOnKeyGreaterThanOrEqualTo
    \/ CursorDelCurrent

SpecCursor == InitCursor /\ [][CsNext]_vars

(* ----- C18: not-found is an empty result, any other status an error ---- *)
\* the statuses of the engine calls of the operation just made
Reported == {rg.calls[i] : i \in 1..Len(rg.calls)}

\* not-found gave an empty result, any other status but success an error
NotFoundIsEmpty ==
    /\ "notfound" \in Reported => rg.out.tag \in {"None", "false"}
    /\ Reported \ {"ok", "notfound"} # {} => rg.out.tag = "Err"

\* C18: a cursor operation, in every duplicate mode, returns an empty
\* result (None or false) and never an error whenever an engine call it
\* made reported not-found; any other engine status but success is
\* returned as an error.
C18_AsClaimed == rg.called # "none" => NotFoundIsEmpty

\* what holds: the same of every operation but move_on_first and
\* move_on_last on the duplicates of the current key
NotFoundIsEmptyButEdgeDup ==
    (/\ rg.called # "none"
     /\ ~(rg.called \in {"move_on_first", "move_on_last"} /\ rg.im = "Dup"))
        => NotFoundIsEmpty

(* ----- C19: an iterator after an engine error -------------------------- *)
\* C19: once next() of an iterator has yielded the error of a failed cursor
\* operation, every later call of next() yields nothing.
C19_AsClaimed ==
    (rg.kind \in {"fwd", "rev", "prefix"} /\ rg.erred) => rg.out.tag = "None"

\* what holds: the error is yielded by the call whose engine call failed,
\* which in these iterations is the first seek only; the calls after it
\* move on from where the cursor is
ErrorOnlyFromFirstSeek ==
    (rg.kind \in {"fwd", "rev", "prefix"} /\ rg.out.tag = "Err")
        => rg.seq = <<ErrItem>> /\ rg.cursor = Uninit

(* ----- C20: a native cursor is closed once, before its transaction ends - *)
\* C20: a native cursor that was opened is closed exactly once, when its
\* cursor is dropped, and while the handle of its transaction is neither
\* committed nor aborted; whenever a cursor can be operated its
\* transaction has not ended; a failed open leaves nothing to close.
C20_CursorClosedOnceBeforeTxnEnds ==
    /\ cur.alive <=> cur.native = "open"
    /\ cur.native = "open" => cur.nclose = 0 /\ eng[cur.h].state = "active"
    /\ cur.native = "closed" => cur.nclose = 1
    /\ cur.native \in {"null", "failed"} => cur.nclose = 0

\* a cursor was opened, dropped, and its transaction then committed
C20_Witness ==
    /\ cur.native = "closed"
    /\ cur.nclose = 1
    /\ eng[cur.h].state = "committed"

\* the cursor of an iterator is likewise open only while the handle it was
\* opened on is active
IterCursorWithinTxn == it.alive => eng[it.h].state = "active"

(* ================ slices returned by a cursor (cursor.rs) ============== *)
\* One read-write transaction, its halves, its write cursor and the slices
\* the program keeps from RoCursor::current.
RfTxn == 1

\* the keys the program writes and seeks
RfKeys == KeysOfLen(1)

RfNext ==
    \/ RwTxnNew(RfTxn) /\ UNCHANGED auxVars
    \/ Split(RfTxn) /\ UNCHANGED auxVars
    \/ \E via \in Vias, db \in LifeDbs, k \in RfKeys, v \in Vals :
           Put(RfTxn, via, db, k, v) /\ UNCHANGED auxVars
    \/ \E via \in Vias, db \in LifeDbs, k \in RfKeys :
           Delete(RfTxn, via, db, k) /\ UNCHANGED auxVars
    \/ \E via \in Vias, db \in LifeDbs, status \in {"ok", "err"} :
           RwCursorNew(RfTxn, via, db, status) /\ UNCHANGED auxVars
    \/ \E k \in RfKeys : MoveOnKey(k) /\ UNCHANGED auxVars
    \/ Current /\ UNCHANGED auxVars
    \/ DropSlice /\ UNCHANGED auxVars
    \/ DelCurrent /\ UNCHANGED auxVars
    \/ DropCursor /\ UNCHANGED auxVars
    \/ DropReadHalf(RfTxn) /\ UNCHANGED auxVars
    \/ DropWriteHalf(RfTxn) /\ UNCHANGED auxVars
    \/ \E status \in {"ok", "err"} : Commit(RfTxn, status) /\ UNCHANGED auxVars
    \/ Abort(RfTxn) /\ UNCHANGED auxVars
    \/ DropTxn(RfTxn) /\ UNCHANGED auxVars

SpecRef == Init /\ [][RfNext]_vars

\* the slices are kept over the step
SliceKept == cur.ref.held /\ cur'.ref = cur.ref

\* the entries of the collection the slices show, as the transaction has it
SliceColl == view[cur.ref.h][cur.ref.db]

TopWriters ==
    {t \in Slots : /\ txns[t].kind = "RwTxn" /\ txns[t].parent = None
                   /\ txns[t].txn # None}

\* C22: at every moment at most one top-level read-write transaction holds
\* a live handle, and that handle is the engine's one active top-level
\* read-write transaction: RwTxn::new does not return while another
\* top-level RwTxn is neither committed, aborted nor dropped.
C22_OneTopLevelWriter ==
    /\ Cardinality(TopWriters) <= 1
    /\ \A t \in TopWriters :
           /\ eng[txns[t].txn].state = "active" /\ eng[txns[t].txn].rw
           /\ \A h \in Handles :
                  (eng[h].state = "active" /\ eng[h].rw /\ eng[h].parent = None)
                      => h = txns[t].txn

\* a second RwTxn::new returned after the first writer was dropped, and a
\* third after the second committed
C22_Witness ==
    /\ txns[1].kind = "RwTxn" /\ txns[1].ended = "drop"
    /\ txns[2].kind = "RwTxn" /\ txns[2].parent = None
    /\ txns[2].ended = "commit"
    /\ TopWriters = {3}

(* =================== waiting for the single writer ===================== *)
\* Threads that call RwTxn::new while another writer is active, next to
\* threads that begin read-only and nested transactions, write, and end
\* their transactions.  A thread inside RwTxn::new returns from it if the
\* writer is free again and again (the lock is granted fairly).
WtNext ==
    \/ \E t \in Slots : RwTxnCall(t) /\ UNCHANGED auxVars
    \/ \E t \in Slots : RwTxnReturn(t) /\ UNCHANGED auxVars
    \/ \E t \in Slots : RoTxnNew(t) /\ UNCHANGED auxVars
    \/ \E t, p \in Slots : Nested(t, p) /\ UNCHANGED auxVars
    \/ \E t \in Slots, via \in Vias, db \in LifeDbs, k \in LifeKeys :
           Get(t, via, db, k) /\ UNCHANGED auxVars
    \/ \E t \in Slots, via \in Vias, db \in LifeDbs, k \in LifeKeys, v \in Vals :
           Put(t, via, db, k, v) /\ UNCHANGED auxVars
    \/ \E t \in Slots, status \in {"ok", "err"} :
           Commit(t, status) /\ UNCHANGED auxVars
    \/ \E t \in Slots : Abort(t) /\ UNCHANGED auxVars
    \/ \E t \in Slots : DropTxn(t) /\ UNCHANGED auxVars

SpecWait ==
    /\ Init
    /\ [][WtNext]_vars
    /\ \A t \in Slots : SF_vars(RwTxnReturn(t) /\ UNCHANGED auxVars)

Waiting(t) == txns[t].life = "waiting"

Obtained(t) ==
    /\ txns[t].life = "live" /\ txns[t].txn # None
    /\ eng[txns[t].txn].state = "active" /\ eng[txns[t].txn].rw

EndStep(t) == txns[t].life = "live" /\ txns'[t].life = "dropped"

\* a step in which a top-level transaction begins
BeginStep(t) ==
    txns[t].life = "none" /\ txns'[t].life = "live" /\ txns'[t].parent = None

\* C24: the writes of a nested read-write transaction are visible to no
\* transaction outside its line of parents until the top-level parent
\* commits, and are discarded when a parent aborts or is dropped, also when
\* the child was committed before.  The content transactions begin from
\* changes only in a successful commit of a top-level RwTxn, to that
\* transaction's content; a transaction that begins sees that content; the
\* content a read-only transaction sees never changes; and the commit of a
\* child hands its content to its parent.
C24_ChildWritesStayInFamily ==
    [][/\ store' # store =>
            \E t \in Slots :
                /\ txns[t].kind = "RwTxn" /\ txns[t].parent = None
                /\ EndStep(t) /\ txns'[t].ended = "commit"
                /\ eng'[txns[t].txn].state = "committed"
                /\ store' = view[txns[t].txn]
       /\ \A t \in Slots :
              /\ BeginStep(t) => view'[txns'[t].txn] = store
              /\ (txns[t].kind = "RoTxn" /\ txns[t].txn # None
                      /\ txns'[t].txn # None)
                     => view'[txns[t].txn] = view[txns[t].txn]
              /\ (EndStep(t) /\ txns[t].parent # None)
                     => view'[txns[txns[t].parent].txn] =
                           IF eng'[txns[t].txn].state = "committed"
                           THEN view[txns[t].txn]
                           ELSE view[txns[txns[t].parent].txn]]_vars

\* a child wrote through its WriteHalf and committed, its parent was then
\* aborted, and the write is not in the content transactions begin from
C24_Witness ==
    \E c, p \in Slots :
        /\ txns[c].parent = p /\ txns[c].ended = "commit"
        /\ eng[c].state = "committed" /\ wlog[c] # {}
        /\ txns[p].ended = "abort"
        /\ ~Visible(wlog[c], store)

(* ====================== transactions and threads ======================= *)
\* An environment opened with or without thread-local storage, and two
\* threads that begin transactions, split them, use them and hand them over.
InitSend ==
    \E tls \in {"WithTls", "WithoutTls"}, born \in [Slots -> Threads] :
        /\ CoreInit(EmptyContent)
        /\ txns = [t \in Slots |->
                      [NoTxn EXCEPT !.tls = tls, !.born = born[t],
                                    !.at = born[t]]]
        /\ sess = NoSess
        /\ it = NoIter
        /\ copy = NoCopy
        /\ rg = NoRange

SdNext ==
    \/ \E t \in Slots : RoTxnNew(t) /\ UNCHANGED auxVars
    \/ \E t \in Slots : RwTxnNew(t) /\ UNCHANGED auxVars
    \/ \E t, p \in Slots : Nested(t, p) /\ UNCHANGED auxVars
    \/ \E t \in Slots : Split(t) /\ UNCHANGED auxVars
    \/ \E t \in Slots, via \in Vias, th \in Threads :
           SendTo(t, via, th) /\ UNCHANGED auxVars
    \/ \E t \in Slots, via \in Vias, db \in LifeDbs, k \in LifeKeys :
           Get(t, via, db, k) /\ UNCHANGED auxVars
    \/ \E t \in Slots, via \in Vias, db \in LifeDbs, k \in LifeKeys :
           Put(t, via, db, k, MaxVal) /\ UNCHANGED auxVars
    \/ \E t \in Slots : DropReadHalf(t) /\ UNCHANGED auxVars
    \/ \E t \in Slots : DropWriteHalf(t) /\ UNCHANGED auxVars
    \/ \E t \in Slots : Commit(t, "ok") /\ UNCHANGED auxVars
    \/ \E t \in Slots : DropTxn(t) /\ UNCHANGED auxVars

SpecSend == InitSend /\ [][SdNext]_vars

LastAfterNext ==
    \/ WalkLast /\ ~rg.move_on_first
    \/ WalkRevLast /\ ~rg.move_on_last

\* the drain of what is left of the iterator of rg
Remainder ==
    IF rg.kind = "iter" THEN Drain("RoIter", rg) ELSE Drain("RoRevIter", rg)

\* C26: last() called after one or more calls of next() returns the final
\* item that a drain of the remainder would yield, and nothing when no
\* item remains.  Stated for the forward and the reverse iterator over the
\* whole collection, in both iteration methods.
C26_AsClaimed ==
    [][LastAfterNext => rg'.out = FinalItem(Remainder)]_vars

\* what holds: in a collection that is not empty and has no duplicates,
\* last() after next() is the final item of the remainder
LastAfterNextWithoutDuplicates ==
    [][(LastAfterNext /\ rg.c # {} /\ NoDuplicates(rg.c))
           => rg'.out = FinalItem(Remainder)]_vars

\* in an empty collection last() after next() returns an error
LastAfterNextOfEmptyIsError ==
    [][(LastAfterNext /\ rg.c = {}) => rg'.out = ErrItem]_vars

(* ----- C27: last() of a whole-collection iterator not yet advanced ----- *)
\* C27: last() of a forward, and of a reverse, iterator over the whole
\* collection that was not advanced returns the final item of a full drain
\* of that iterator in the same iteration method, and nothing when the
\* collection is empty.
C27_AsClaimed ==
    /\ (rg.kind = "iter.last" /\ rg.move_on_first)
           => rg.out = FinalItem(Drain("RoIter", FreshIter))
    /\ (rg.kind = "rev_iter.last" /\ rg.move_on_last)
           => rg.out = FinalItem(Drain("RoRevIter", FreshRevIter))

\* what holds: last() is the final item of the drain when every duplicate
\* is visited or there is none
FreshLastIsFinalWhenDuplicatesVisited ==
    /\ (/\ rg.kind = "iter.last" /\ rg.move_on_first
        /\ (rg.im = "Any" \/ NoDuplicates(rg.c)))
           => rg.out = FinalItem(Drain("RoIter", FreshIter))
    /\ (/\ rg.kind = "rev_iter.last" /\ rg.move_on_last
        /\ (rg.im = "Any" \/ NoDuplicates(rg.c)))
           => rg.out = FinalItem(Drain("RoRevIter", FreshRevIter))

(* ----- C28: a reverse prefix iteration against the forward one --------- *)
\* C28: for every content and every prefix, the empty prefix and the
\* prefixes ending in the greatest byte included, a drained reverse prefix
\* iterator has yielded the reverse of what a forward prefix iterator over
\* the same prefix yields.  (Its second part, that with a prefix without a
\* successor the iteration starts from the last entry of the collection,
\* is RevPrefixWithoutSuccessorStartsAtLast.)  Stated for the default
\* iteration method.
C28_AsClaimed ==
    (rg.kind = "rev_prefix" /\ Drained /\ rg.im = DefaultMoveOperation)
        => rg.seq = Reverse(Drain("RoPrefix", FreshPrefix))

\* the bytes of the prefix are all the greatest byte (the empty prefix too)
NoSuccessor(prefix) == \A i \in 1..Len(prefix) : prefix[i] = MaxElem

\* with a prefix without a successor the first next() of the reverse
\* iterator goes to the last entry of the collection
RevPrefixWithoutSuccessorStartsAtLast ==
    (/\ rg.kind = "rev_prefix" /\ NoSuccessor(rg.prefix)
     /\ ~rg.move_on_last /\ ~rg.after
     /\ \/ rg.out.tag = "None" /\ rg.seq = <<>>
        \/ rg.out.tag = "Some" /\ Len(rg.seq) = 1)
        => /\ rg.cursor = MdbLast(rg.c).cs
           /\ rg.out = ItemOf(MdbLast(rg.c),
                              starts_with(MdbLast(rg.c).e.k, rg.prefix))

\* what holds: the reverse drain is the reverse of the forward drain when
\* the prefix is not empty and its last byte is not the greatest one,
\* unless all are, and when every duplicate is visited or there is none
RevPrefixIsReverse ==
    (/\ rg.kind = "rev_prefix" /\ Drained
     /\ rg.prefix # <<>>
     /\ rg.prefix[Len(rg.prefix)] # MaxElem \/ NoSuccessor(rg.prefix)
     /\ rg.im = "Any" \/ NoDuplicates(rg.c))
        => rg.seq = Reverse(Drain("RoPrefix", FreshPrefix))

(* ----- C29: where move_on_range_end leaves the cursor ------------------ *)
\* the first next() of the reverse range iterator of rg has just returned:
\* move_on_range_end has run on the new cursor, and nothing else
RangeEndMoved ==
    /\ rg.kind = "rev" /\ ~rg.move_on_end /\ ~rg.after /\ ~rg.erred
    /\ \/ rg.out.tag = "None" /\ rg.seq = <<>>
       \/ rg.out.tag # "None" /\ Len(rg.seq) = 1

\* the entries whose key the end bound of rg allows
UpToEnd == {e \in rg.c : EndAllows(e.k, rg.end_bound)}

\* what move_on_range_end did on the cursor of rg
RangeEnd == MoveOnRangeEnd(rg.c, Uninit, rg.end_bound)

\* the move found an entry of the greatest key the end bound allows, and
\* nothing when the bound allows no key; with no key >= end it found the
\* last entry of the collection
RangeEndFound ==
    /\ rg.cursor = RangeEnd.cs
    /\ rg.out = ItemOf(RangeEnd, StartAllows(RangeEnd.e.k, rg.start_bound))
    /\ IF UpToEnd = {} THEN RangeEnd.rc = "notfound"
       ELSE /\ RangeEnd.rc = "ok"
            /\ RangeEnd.cs = [st |-> "at", e |-> RangeEnd.e]
            /\ RangeEnd.e \in UpToEnd
            /\ \A f \in UpToEnd : KeyLeq(f.k, RangeEnd.e.k)
    /\ (rg.c # {} /\ \A f \in rg.c : ~KeyLeq(rg.end_bound.k, f.k))
           => RangeEnd.e = MaxEntry(rg.c)

\* C29: move_on_range_end leaves the cursor on an entry with the greatest
\* key <= end (Included), the greatest key < end (Excluded) or the
\* greatest key of the collection (Unbounded), and reports nothing when
\* there is no such key; when no stored key is >= end the step back after
\* the failed seek lands on the last entry of the collection.
C29_AsClaimed == RangeEndMoved => RangeEndFound

\* what holds: the same for every end bound whose key is not empty
RangeEndFoundForSeekableEnd ==
    (RangeEndMoved /\ (rg.end_bound.t = "Unbounded" \/ rg.end_bound.k # <<>>))
        => RangeEndFound

\* with an empty end key the move reports the engine's refusal
RangeEndOfEmptyKeyIsError ==
    (RangeEndMoved /\ rg.end_bound.t # "Unbounded" /\ rg.end_bound.k = <<>>)
        => RangeEnd.rc = "badvalsize" /\ rg.out = ErrItem

(* ------------- advance_prefix applied to any byte sequence ------------- *)
\* the length of the longest sequence advanced
MaxAdvLen == 6

AdvBytes == UNION {[1..n -> Bytes] : n \in 0..MaxAdvLen}

\* a buffer of bytes, the empty one included
InitAdvance ==
    /\ CoreInit(EmptyContent)
    /\ sess = NoSess
    /\ it = NoIter
    /\ copy = NoCopy
    /\ \E bytes \in AdvBytes :
           rg = [NoRange EXCEPT !.kind = "bytes", !.prefix = bytes]

\* advance_prefix(&mut bytes): the buffer is changed in place
AdvancePrefix ==
    /\ rg.kind \in {"bytes", "advanced"}
    /\ LET adv == advance_prefix(rg.prefix)
       IN rg' = [rg EXCEPT !.kind = "advanced", !.prefix = adv.bytes,
                           !.advanced = adv.ok]
    /\ UNCHANGED <<coreVars, sess, it, copy>>

AdNext == AdvancePrefix

SpecAdvance == InitAdvance /\ [][AdNext]_vars

\* C30: advance_prefix returns false exactly when every byte is the
\* comparator's greatest element (the empty sequence included), and then
\* leaves the bytes unchanged; otherwise it returns true and the bytes are
\* the least sequence of the same length that is greater than the
\* original in the comparator's order.
C30_AdvancePrefixIsSuccessor ==
    [][AdvancePrefix =>
          LET b == rg.prefix
              n == rg'.prefix
          IN /\ ~rg'.advanced <=> \A i \in 1..Len(b) : b[i] = MaxElem
             /\ ~rg'.advanced => n = b
             /\ rg'.advanced =>
                    /\ Len(n) = Len(b)
                    /\ KeyLess(b, n)
                    /\ \A x \in [1..Len(b) -> Bytes] :
                           KeyLess(b, x) => KeyLeq(n, x)]_vars

\* an advance that went past trailing greatest bytes: the byte before
\* them was raised and they were set to the least byte
C30_Witness ==
    /\ rg.kind = "advanced" /\ rg.advanced
    /\ Len(rg.prefix) >= 2
    /\ rg.prefix[Len(rg.prefix)] = MinElem
    /\ rg.prefix[Len(rg.prefix) - 1] # MinElem

InitSix == InitRange \/ InitPrefix \/ InitWalk

SixNext == RgNext \/ PfNext \/ WkNext

SpecSix == InitSix /\ [][SixNext]_vars

\* the step is a next() of the iterator of rg
NextCall ==
    \/ RangeNext \/ RevRangeNext \/ PrefixNext \/ RevPrefixNext
    \/ WalkNext \/ WalkRevNext

\* the iterator r has not positioned its cursor yet
NotYetPositioned(r) ==
    CASE r.kind \in {"fwd", "fwd.last"} -> r.move_on_start
      [] r.kind \in {"rev", "rev.last"} -> r.move_on_end
      [] r.kind \in {"prefix", "prefix.last", "iter", "iter.last"}
             -> r.move_on_first
      [] OTHER -> r.move_on_last

\* the iterator r moves forward
Forward(r) ==
    r.kind \in {"fwd", "fwd.last", "prefix", "prefix.last", "iter", "iter.last"}

\* the cursor operations that place a cursor wherever it is
Positioning == {"MDB_FIRST", "MDB_LAST", "MDB_SET_RANGE"}

(* ----- C32: positioning by the first next() only ----------------------- *)
\* C32: on each of the six iterators the first next() issues the
\* positioning operation and clears the flag for it whatever the result;
\* every later next() issues exactly one cursor operation, the move to the
\* next entry (forward) or to the previous one (reverse) in the iterator's
\* duplicate mode, also after the first call returned nothing or an error.
C32_PositioningOnlyOnce ==
    [][NextCall =>
          /\ ~NotYetPositioned(rg')
          /\ NotYetPositioned(rg) => rg'.ops[1] \in Positioning
          /\ ~NotYetPositioned(rg) =>
                 rg'.ops = <<IF Forward(rg) THEN NextFlag(rg.im)
                             ELSE PrevFlag(rg.im)>>]_vars

\* after a first next() that returned an error a later next() has moved
\* the cursor once more and returned an entry
C32_Witness ==
    /\ rg.kind \in {"fwd", "rev"} /\ rg.erred
    /\ rg.ops \in {<<NextFlag(rg.im)>>, <<PrevFlag(rg.im)>>}
    /\ rg.out.tag = "Some"

(* ----- C33: the engine calls of last() --------------------------------- *)
\* the step is a last() of the iterator of rg
LastCall ==
    \/ RangeLast \/ RevRangeLast \/ PrefixLast \/ RevPrefixLast
    \/ WalkLast \/ WalkRevLast

\* C33: last() of each of the six iterators, advanced before or not, hands
\* at most three cursor operations to the engine, however many entries the
\* collection, the range or the prefix holds.
C33_LastInThreeCalls ==
    [][LastCall => Len(rg'.ops) \in 1..3]_vars

\* last() of a range iterator that was advanced has read the current
\* entry, sought the end bound and stepped back, and returned an entry
C33_Witness ==
    /\ rg.kind = "fwd.last" /\ ~rg.move_on_start
    /\ rg.ops = <<"MDB_GET_CURRENT", "MDB_SET_RANGE", "MDB_PREV_NODUP">>
    /\ rg.out.tag = "Some"
    /\ Cardinality(rg.c) > 3

(* ----- C34: reads through the halves of a split transaction ------------ *)
\* C34: in one read-write transaction, with no commit in between, a get
\* through the ReadHalf of a key the RwTxn wrote before the split returns the
\* value written then (unless the WriteHalf has overwritten or deleted it
\* since), and a get on the WriteHalf's handle returns the value the
\* WriteHalf wrote last.
C34_HalvesReadOwnWrites ==
    /\ [](halves[PgTxn].w =>
             \A x \in wlog[PgTxn] :
                 x.via = "write" =>
                     PageGet(sess.pgs[halves[PgTxn].wtxn], x.db, x.k) = x.v)
    /\ [][\A db \in PgDbsOf("read") : \A k \in PgKeysOf(db) :
             PgGet("read", db, k) =>
                 \A x \in wlog[PgTxn] :
                     (x.via = "self" /\ x.db = db /\ x.k = k) =>
                         /\ sess'.ref.held
                         /\ sess'.ref.cell
                                = [dbi |-> Dbi(db), k |-> k, v |-> x.v]]_vars

\* the ReadHalf has just read a value the RwTxn wrote before the split, other
\* than the committed one, and the WriteHalf has written another key
C34_Witness ==
    /\ halves[PgTxn].r /\ halves[PgTxn].w
    /\ op = Call(PgTxn, "read", FALSE)
    /\ sess.ref.held
    /\ \E x, y \in wlog[PgTxn] :
           /\ x.via = "self" /\ x.db = sess.ref.db /\ x.k = sess.ref.cell.k
           /\ x.v = sess.ref.cell.v /\ x.v # MaxVal
           /\ y.via = "write"
           /\ PageGet(sess.pgs[halves[PgTxn].wtxn], y.db, y.k) = y.v

(* ================ the six iterators over a failing codec =============== *)
DcBounds == {Unbounded, Included(<<0, 1>>), Excluded(<<1>>)}

DcPrefixes == {<<0>>, <<1>>}

\* any of the six iterators, not yet advanced, over any entries, with codecs
\* that fail on some of them
InitDecode ==
    /\ CoreInit(EmptyContent)
    /\ sess = NoSess
    /\ it = NoIter
    /\ copy = NoCopy
    /\ \E c \in SUBSET [k : RgKeys, v : Vals],
          kind \in {"fwd", "rev", "prefix", "rev_prefix", "iter", "rev_iter"},
          sb \in DcBounds, eb \in DcBounds, prefix \in DcPrefixes \cup {<<>>},
          im \in RangeMoveOps, kc \in Codecs, dc \in Codecs :
           /\ kind \in {"fwd", "rev"} \/ (sb = Unbounded /\ eb = Unbounded)
           /\ kind \in {"prefix", "rev_prefix"} <=> prefix # <<>>
           /\ rg = [NoRange EXCEPT !.kind = kind, !.c = c, !.start_bound = sb,
                                   !.end_bound = eb, !.prefix = prefix,
                                   !.im = im, !.kc = kc, !.dc = dc]

DcNext ==
    \/ RangeNext \/ RevRangeNext \/ PrefixNext \/ RevPrefixNext
    \/ WalkNext \/ WalkRevNext

SpecDecode == InitDecode /\ [][DcNext]_vars

\* the iterator type behind rg
Which(r) ==
    CASE r.kind = "fwd" -> "RoRange"
      [] r.kind = "rev" -> "RoRevRange"
      [] r.kind = "prefix" -> "RoPrefix"
      [] r.kind = "rev_prefix" -> "RoRevPrefix"
      [] r.kind = "iter" -> "RoIter"
      [] OTHER -> "RoRevIter"

\* the iterator of rg as it was made, over the same entries with codecs that
\* never fail
FreshOverBytes ==
    [rg EXCEPT !.cursor = Uninit, !.move_on_start = TRUE, !.move_on_end = TRUE,
               !.move_on_first = TRUE, !.move_on_last = TRUE,
               !.out = NoRange.out, !.after = FALSE, !.erred = FALSE,
               !.seq = <<>>, !.ops = <<>>, !.kc = "Bytes", !.dc = "Bytes"]

\* what next() is to return for the raw item of the cursor
Typed(item) ==
    CASE item.tag = "Some" /\ ~KeyDecodes(rg.kc, item.e.k) ->
             [tag |-> "Decoding", e |-> NoEntry, of |-> "key"]
      [] item.tag = "Some" /\ KeyDecodes(rg.kc, item.e.k)
                          /\ ~DataDecodes(rg.dc, item.e.v) ->
             [tag |-> "Decoding", e |-> NoEntry, of |-> "data"]
      [] OTHER -> item

(* ----- C35: entries that fail to decode -------------------------------- *)
\* C35: the items of next() up to the first None are, one for one, the
\* entries the same iterator yields over raw bytes: an entry whose key or
\* value does not decode gives a decoding error in its place (the key's when
\* both fail) and the next call goes on with the entry after it; the
\* sequence ends where the raw one ends, so the entry that fails the bound or
\* prefix check ends it, undecodable or not.
C35_DecodingErrorInPlace ==
    LET raw == Drain(Which(rg), FreshOverBytes)
    IN /\ Len(rg.seq) <= Len(raw)
       /\ \A i \in 1..Len(rg.seq) : rg.seq[i] = Typed(raw[i])
       /\ (rg.after \/ rg.out.tag = "None") => Len(rg.seq) = Len(raw)

\* a range iterator returned a decoding error, then the entry after it, and
\* then ended on an entry beyond its end bound that does not decode
C35_Witness ==
    /\ rg.kind = "fwd" /\ rg.out.tag = "None" /\ ~rg.after
    /\ rg.cursor.st = "at"
    /\ ~EndAllows(rg.cursor.e.k, rg.end_bound)
    /\ ~DataDecodes(rg.dc, rg.cursor.e.v)
    /\ \E i \in 1..(Len(rg.seq) - 1) :
           rg.seq[i].tag = "Decoding" /\ rg.seq[i + 1].tag = "Some"

(* ----- C36: a parent while its nested child lives ---------------------- *)
\* C36: while a transaction made by nested() is alive no call is made on its
\* parent, through the parent itself or through a half of it (no read, write,
\* split, commit, abort or drop), the parent has no halves and no second
\* child; so the engine handle of a child is never active after the handle of its
\* parent has been released.
C36_ParentFrozenWhileChildLives ==
    /\ [](\A p \in Slots : NestedBorrow(p) => ~SplitBorrow(halves[p]))
    /\ [](\A c, d \in Slots :
             (/\ txns[c].life = "live" /\ txns[d].life = "live"
              /\ txns[c].parent # None /\ txns[c].parent = txns[d].parent)
                 => c = d)
    /\ [](\A h \in Handles :
             (eng[h].state = "active" /\ eng[h].parent # None)
                 => eng[eng[h].parent].state = "active")
    /\ [][\A p \in Slots : NestedBorrow(p) => op'.t # p]_vars

\* a child has written while its parent, itself a child, is alive and
\* untouched
C36_Witness ==
    \E g, p, c \in Slots :
        /\ txns[g].life = "live" /\ txns[p].life = "live"
        /\ txns[c].life = "live"
        /\ txns[p].parent = g /\ txns[c].parent = p
        /\ eng[txns[c].txn].parent = txns[p].txn
        /\ eng[txns[p].txn].state = "active"
        /\ op = Call(c, "self", TRUE)

(* ----- C37: a commit the engine refuses -------------------------------- *)
\* C37: when mdb_txn_commit reports an error, commit() of a RoTxn or a RwTxn
\* has taken the handle out of the object before the call: the object is
\* gone, the drop at the end of commit() finds no handle and calls no
\* mdb_txn_abort, then or later, and nothing was published.
C37_FailedCommitConsumesHandle ==
    /\ [](\A h \in Handles :
             eng[h].state = "failed" =>
                 eng[h].ncommit = 1 /\ eng[h].nabort = 0)
    /\ [][\A t \in Slots :
             Commit(t, "err") =>
                 /\ eng'[txns[t].txn].state = "failed"
                 /\ txns'[t].txn = None /\ txns'[t].life = "dropped"
                 /\ store' = store]_vars

\* the commit of a RoTxn and the commit of a RwTxn that had written have
\* both failed
C37_Witness ==
    \E t, u \in Slots :
        /\ txns[t].kind = "RoTxn" /\ txns[t].life = "dropped"
        /\ txns[t].ended = "commit" /\ eng[t].state = "failed"
        /\ txns[u].kind = "RwTxn" /\ txns[u].life = "dropped"
        /\ txns[u].ended = "commit" /\ eng[u].state = "failed"
        /\ eng[u].nabort = 0 /\ eng[t].nabort = 0

(* ----- C38: the handle of a live object -------------------------------- *)
\* C38: every transaction object that is in scope holds its native handle:
\* the Option is emptied only by a call of commit, abort or the drop on that
\* object, and the same step ends the object; so txn_ptr, id, split and
\* nested, which unwrap the Option, never find it empty.
C38_LiveObjectHoldsHandle ==
    /\ [](\A t \in Slots :
             /\ txns[t].life = "live" => txns[t].txn # None
             /\ halves[t].r => halves[t].rtxn = txns[t].txn
             /\ halves[t].w => halves[t].wtxn = txns[t].txn)
    /\ [][\A t \in Slots :
             (txns[t].txn # None /\ txns'[t].txn = None) =>
                 /\ op' = Call(t, "self", FALSE)
                 /\ txns'[t].life = "dropped"
                 /\ txns'[t].ended \in {"commit", "abort", "drop"}]_vars

\* one object was committed, one aborted, and a third, made after both, is
\* in scope with halves that carry its handle
C38_Witness ==
    \E t, u, w \in Slots :
        /\ txns[u].ended = "commit" /\ txns[u].txn = None
        /\ txns[w].ended = "abort" /\ txns[w].txn = None
        /\ txns[t].life = "live" /\ txns[t].txn # None
        /\ halves[t].r /\ halves[t].w
        /\ op = Call(t, "write", TRUE)

(* ============== the six iterators, converted along the way ============= *)
\* a conversion that builds the iterator anew, to be positioned again
move_between_keys_restarting(r) ==
    [r EXCEPT !.im = "NoDup", !.move_on_first = TRUE, !.move_on_last = TRUE,
              !.move_on_start = TRUE, !.move_on_end = TRUE]

\* move_between_keys(self): the same cursor, flag, bounds and prefix in an
\* iterator of IterationMethod MoveBetweenKeys
move_between_keys(r) == [r EXCEPT !.im = "NoDup"]

\* move_through_duplicate_values(self)
move_through_duplicate_values(r) == [r EXCEPT !.im = "Any"]

\* remap_types::<KC2, DC2>(self); remap_key_type, remap_data_type and
\* lazily_decode_data call it with one of the two kept
remap_types(r, kc2, dc2) == [r EXCEPT !.kc = kc2, !.dc = dc2]

CvBounds == {Unbounded, Included(<<0, 1>>)}

SixKinds == {"fwd", "rev", "prefix", "rev_prefix", "iter", "rev_iter"}

\* any of the six iterators as the Database methods make it: the default
\* iteration method and the codecs of the collection, here Bytes
InitConvert ==
    /\ CoreInit(EmptyContent)
    /\ sess = NoSess
    /\ it = NoIter
    /\ copy = NoCopy
    /\ \E c \in SUBSET [k : RgKeys, v : Vals], kind \in SixKinds,
          sb \in CvBounds, eb \in CvBounds, prefix \in DcPrefixes \cup {<<>>} :
           /\ kind \in {"fwd", "rev"} \/ (sb = Unbounded /\ eb = Unbounded)
           /\ kind \in {"prefix", "rev_prefix"} <=> prefix # <<>>
           /\ rg = [NoRange EXCEPT !.kind = kind, !.c = c, !.start_bound = sb,
                                   !.end_bound = eb, !.prefix = prefix,
                                   !.im = DefaultMoveOperation]

MoveBetweenKeys ==
    /\ rg.kind \in SixKinds
    /\ rg' = move_between_keys(rg)
    /\ UNCHANGED <<coreVars, sess, it, copy>>

MoveThroughDuplicateValues ==
    /\ rg.kind \in SixKinds
    /\ rg' = move_through_duplicate_values(rg)
    /\ UNCHANGED <<coreVars, sess, it, copy>>

RemapTypes ==
    /\ rg.kind \in SixKinds
    /\ \E kc2 \in Codecs, dc2 \in Codecs : rg' = remap_types(rg, kc2, dc2)
    /\ UNCHANGED <<coreVars, sess, it, copy>>

Conversion == MoveBetweenKeys \/ MoveThroughDuplicateValues \/ RemapTypes

CvNext ==
    \/ RangeNext \/ RevRangeNext \/ PrefixNext \/ RevPrefixNext
    \/ WalkNext \/ WalkRevNext
    \/ MoveBetweenKeys \/ MoveThroughDuplicateValues \/ RemapTypes

SpecConvert == InitConvert /\ [][CvNext]_vars

\* the entry that follows e in the direction of the iterator, under the
\* iteration method im; NoEntry when there is none
Following(c, e, im, forward) ==
    LET S == {x \in c :
                IF forward
                THEN (IF im = "NoDup" THEN KeyLess(e.k, x.k)
                      ELSE EntryLess(e, x))
                ELSE (IF im = "NoDup" THEN KeyLess(x.k, e.k)
                      ELSE EntryLess(x, e))}
    IN IF S = {} THEN NoEntry
       ELSE IF forward THEN MinEntry(S) ELSE MaxEntry(S)

\* the far bound or the prefix of the iterator lets the key through
Passes(r, key) ==
    CASE r.kind = "fwd" -> EndAllows(key, r.end_bound)
      [] r.kind = "rev" -> StartAllows(key, r.start_bound)
      [] r.kind \in {"prefix", "rev_prefix"} -> starts_with(key, r.prefix)
      [] OTHER -> TRUE

(* ----- C39: conversions of an iterator --------------------------------- *)
\* C39: move_between_keys, move_through_duplicate_values and the remap_*
\* methods change the iteration method or the codecs and nothing else: the
\* cursor, the not-yet-positioned flag, the bounds and the prefix stay and no
\* cursor operation is issued; the next() after them goes on from the entry
\* the cursor is on to the one that follows it under the method and codecs
\* the iterator has now.
C39_ConversionKeepsPosition ==
    /\ [][Conversion =>
             /\ rg'.cursor = rg.cursor
             /\ NotYetPositioned(rg') = NotYetPositioned(rg)
             /\ rg'.start_bound = rg.start_bound
             /\ rg'.end_bound = rg.end_bound
             /\ rg'.prefix = rg.prefix
             /\ rg'.ops = rg.ops /\ rg'.calls = rg.calls
             /\ rg'.out = rg.out /\ rg'.seq = rg.seq]_vars
    /\ [][(/\ NextCall /\ ~NotYetPositioned(rg) /\ rg.cursor.st = "at") =>
             LET f == Following(rg.c, rg.cursor.e, rg.im, Forward(rg))
             IN rg'.out = IF f = NoEntry \/ ~Passes(rg, f.k) THEN NoneItem
                          ELSE Typed(Some(f))]_vars

\* a forward iterator returned both values of one key, was then converted
\* with move_between_keys, and returned the first value of the next key only
C39_Witness ==
    /\ rg.kind \in {"fwd", "prefix", "iter"} /\ rg.im = "NoDup"
    /\ Drained /\ Len(rg.seq) = 3
    /\ \A i \in 1..3 : rg.seq[i].tag = "Some"
    /\ rg.seq[1].e.k = rg.seq[2].e.k
    /\ rg.seq[3].e.k # rg.seq[2].e.k
    /\ \E x \in rg.c : x.k = rg.seq[3].e.k /\ x.v > rg.seq[3].e.v

(* ----- C40: the length of an iteration --------------------------------- *)
\* the items returned before the first None hold no entry twice
NoEntryTwice ==
    \A i, j \in 1..Len(rg.seq) :
        (i < j /\ rg.seq[i].tag = "Some") => rg.seq[i] # rg.seq[j]

\* C40: on a collection that is not modified, next() of any of the six
\* iterators returns None after at most as many calls as there are stored
\* entries and one more, and returns no stored entry twice before that.
C40_AsClaimed ==
    /\ Len(rg.seq) <= Cardinality(rg.c)
    /\ NoEntryTwice

\* what holds: as long as no call returned an error the end is reported
\* within as many calls as there are entries and one more
EndsWithinEntriesUnlessError ==
    (\A i \in 1..Len(rg.seq) : rg.seq[i].tag = "Some")
        => Len(rg.seq) <= Cardinality(rg.c)

\* what holds: in all cases at most one call more than that is needed, the
\* one that returned the error of the refused first seek, and no entry comes
\* twice
EndsWithinEntriesAndOneError ==
    /\ Len(rg.seq) <= Cardinality(rg.c) + 1
    /\ Len(rg.seq) = Cardinality(rg.c) + 1 => rg.seq[1].tag = "Err"
    /\ NoEntryTwice

====
